---- MODULE Spec2Model ----
(***************************************************************************)
(* Model of the hosh check-execution pipeline:                             *)
(*   - the Electrum probe            (src/btc/api.py)                      *)
(*   - the BTC checker worker        (src/checkers/btc/worker.py)          *)
(*   - the publisher / scheduler     (src/publisher/publisher.py)          *)
(*   - the dashboard's check trigger (src/contrib/dashboard/data/          *)
(*                                    nats_client.py)                      *)
(* Twelve specifications share the definitions below:                      *)
(*   SpecCheck  one check, step by step: worker -> HTTP API -> probe ->    *)
(*              remote server and back to the stored record;               *)
(*   SpecCheckFair SpecCheck with weak fairness of its steps;              *)
(*   Spec       the distributed system: registry (Redis), publisher loop,  *)
(*              bus (NATS subjects and queue group), workers, clock,       *)
(*              with the default CHECK_INTERVAL;                           *)
(*   SpecEnv    Spec with CHECK_INTERVAL taken from CheckIntervals;        *)
(*   SpecTrigger the dashboard's trigger, the bus and the workers, with    *)
(*              no publisher running;                                      *)
(*   SpecHeader parse_block_header applied to 80-byte headers;             *)
(*   SpecTor    two request threads of the API process probing .onion and  *)
(*              clearnet hosts with the process-wide socket state.         *)
(*   SpecLive   Spec with weak fairness of the publisher task and clock;   *)
(*   SpecFaulty Spec with a registry holding values that are not records;  *)
(*   SpecStarve the publisher alone at CHECK_INTERVAL = 60, fairly         *)
(*              scheduled, over discovered, checked and untimed records;   *)
(*   SpecRace   two worker processes whose query and store are separate    *)
(*              steps, next to the publisher;                              *)
(*   SpecDiscovery the discovery service, whose exists and set are         *)
(*              separate commands, with the trigger, the workers and the   *)
(*              dashboard clearing the registry.                           *)
(* Python dicts are functions from keys to values; a key that is absent    *)
(* is absent from the DOMAIN, and Get is dict.get.                         *)
(***************************************************************************)
EXTENDS Integers, Sequences, FiniteSets, TLC

VARIABLES
    \* ---- one check (SpecCheck) ----
    ck_pc,          \* position of the check: see CkPcs
    ck_entry,       \* "pipeline": a worker handles a request; "probe": query_electrumx_server called directly
    ck_msg,         \* the request payload the worker received
    ck_ports,       \* the `ports` argument of the probe
    ck_method,      \* the `method` argument of the probe
    ck_params,      \* the `params` argument of the probe
    ck_ci,          \* index into connection_options
    ck_mi,          \* index into methods
    ck_reach,       \* sequence of reachability connects made: [conn, ok]
    ck_attempts,    \* sequence of RPC attempts made: [conn, method, outcome]
    probe_result,   \* the dict query_electrumx_server returned
    api_response,   \* the HTTP response of /electrum/query: [code, body]
    server_data,    \* what query_server_data returned to process_check_request
    ck_stored,      \* the record process_check_request wrote to Redis (or NotStored)
    ck_exc,         \* the exception process_check_request caught ("" when none)
    \* ---- the distributed system (Spec) ----
    now,            \* wall clock, seconds
    SERVER_REFRESH_INTERVAL_SECONDS, \* publisher.py:12, read from the environment (CHECK_INTERVAL)
    redis,          \* key -> stored record (a dict)
    pub_pc,         \* publisher loop position
    pub_keys,       \* keys of the current cycle still to handle
    pub_cycle,      \* number of the current publisher cycle
    pub_wake,       \* time at which the publisher's sleep ends
    pub_log,        \* log of the publisher's per-key decisions, in order
    emitted,        \* log of every message handed to nc.publish, in order
    inbox,          \* worker -> sequence of delivered, unhandled messages
    dropped,        \* ids of messages published on a subject nobody subscribes to
    results,        \* log of records written by workers: [mid, record]
    handled,        \* ids of messages whose handler has returned
    \* ---- parse_block_header on its own (SpecHeader) ----
    hdr_hex,        \* the header_hex argument: a sequence of hex digits (their values, 0..15)
    hdr_other,      \* the argument of a second call
    hdr_parsed,     \* what parse_block_header(hdr_hex) returned
    hdr_other_parsed, \* what parse_block_header(hdr_other) returned
    \* ---- probes sharing one process (SpecTor) ----
    socket_socket,  \* the module attribute socket.socket: what create_connection instantiates
    default_proxy,  \* the default proxy of the socks module
    probe_thread,   \* request thread -> the state of the probe it runs
    \* ---- the dashboard's trigger (SpecTrigger) ----
    trigger_calls,  \* calls of publish_chain_check_trigger made: arguments, messages published, return value
    \* ---- workers and discovery step by step (SpecRace, SpecDiscovery) ----
    w_pending,      \* worker -> the request it is handling and what query_server_data returned (or PyNone)
    disc_pending    \* keys discovery has found missing and has not written yet

ck_vars == <<ck_pc, ck_entry, ck_msg, ck_ports, ck_method, ck_params, ck_ci, ck_mi, ck_reach,
             ck_attempts, probe_result, api_response, server_data, ck_stored, ck_exc>>
sys_vars == <<now, SERVER_REFRESH_INTERVAL_SECONDS, redis, pub_pc, pub_keys, pub_cycle,
              pub_wake, pub_log, emitted, inbox, dropped, results, handled>>
hdr_vars == <<hdr_hex, hdr_other, hdr_parsed, hdr_other_parsed>>
tor_vars == <<socket_socket, default_proxy, probe_thread>>
trig_vars == <<trigger_calls>>
race_vars == <<w_pending, disc_pending>>
lib_vars == <<hdr_vars, tor_vars, trig_vars, race_vars>>
vars == <<ck_vars, sys_vars, lib_vars>>

-----------------------------------------------------------------------------
(* Python values *)

ClearHost == "electrum.example.org"

\* None / JSON null where a scalar is expected
None == "None"
\* None where a dict is expected (a function returning a dict or None)
PyNone == [py_none |-> TRUE]
\* dict.get(key, default)
Get(d, k, default) == IF k \in DOMAIN d THEN d[k] ELSE default
\* dict.update(other), as a new dict
Update(d, other) ==
    [k \in (DOMAIN d) \cup (DOMAIN other) |-> IF k \in DOMAIN other THEN other[k] ELSE d[k]]
\* dict.pop(key)
Pop(d, k) == [x \in (DOMAIN d) \ {k} |-> d[x]]
\* truthiness of `if server_data:`
Truthy(d) == d # PyNone /\ DOMAIN d # {}

Last(s) == s[Len(s)]

-----------------------------------------------------------------------------
(* The Electrum probe: query_electrumx_server, src/btc/api.py *)

DEFAULT_METHOD == "blockchain.headers.subscribe"

\* The fallback list with server.features ahead of the requested method.
methods_features_first(method) ==
    << "server.features",
       IF method = None THEN DEFAULT_METHOD ELSE method,
       "blockchain.numblocks.subscribe" >>

\* The fallback list built at api.py:111-115.
methods(method) ==
    << IF method = None THEN DEFAULT_METHOD ELSE method,
       "server.features",
       "blockchain.numblocks.subscribe" >>

\* The params sent with each entry of the fallback list, api.py:111-115.
method_params(params) == << params, << >>, << >> >>

\* `ports` is a dict that may hold "s" and "t", or a single integer.
PortSpecs ==
    { [kind |-> "dict", s |-> TRUE,  t |-> FALSE],
      [kind |-> "dict", s |-> FALSE, t |-> TRUE],
      [kind |-> "dict", s |-> TRUE,  t |-> TRUE],
      [kind |-> "dict", s |-> FALSE, t |-> FALSE],
      [kind |-> "int",  s |-> FALSE, t |-> FALSE] }

\* The transport list with the plaintext port ahead of the SSL port.
connection_options_plain_first(ports) ==
    IF ports.kind = "dict"
    THEN (IF ports.t THEN << [use_ssl |-> FALSE] >> ELSE << >>)
         \o (IF ports.s THEN << [use_ssl |-> TRUE] >> ELSE << >>)
    ELSE << [use_ssl |-> FALSE] >>

\* api.py:117-124: SSL first (when "s" is given), then plaintext.
connection_options(ports) ==
    IF ports.kind = "dict"
    THEN (IF ports.s THEN << [use_ssl |-> TRUE] >> ELSE << >>)
         \o (IF ports.t THEN << [use_ssl |-> FALSE] >> ELSE << >>)
    ELSE << [use_ssl |-> FALSE] >>

\* Every connection reported as SSL.
connection_type_ssl(connection) == IF connection.use_ssl THEN "SSL" ELSE "SSL"

connection_type(connection) == IF connection.use_ssl THEN "SSL" ELSE "Plaintext"

\* The JSON value of `result` in a server's reply, tagged by its JSON type.
\* A hex string is described by the number of bytes it encodes.
JDict(d) == [t |-> "dict", v |-> d]
JInt(n)  == [t |-> "int", v |-> n]
JNull    == [t |-> "null"]
HeaderHex  == [nbytes |-> 80]
ShortHex   == [nbytes |-> 50]
LongHex    == [nbytes |-> 81]
ResultValues ==
    { JDict([hex |-> HeaderHex, height |-> 840123]),
      JDict([hex |-> ShortHex, height |-> 840123]),
      JDict([hex |-> LongHex, height |-> 840123]),
      JDict([server_version |-> "ElectrumX 1.16.0"]),
      JInt(840123),
      JNull }

\* What the remote end does on one RPC attempt (api.py:174-188):
\*   connect_fail  create_connection raises (refused, timeout, SOCKS failure)
\*   ssl_error     wrap_socket raises ssl.SSLError
\*   io_error      sendall / recv raises, or the 10 s deadline passes
\*   bad_json      json.loads raises, or the reply is JSON but not an object
\*   no_result     a JSON object without a top-level "result"
\*   result        a JSON object with "result"
FailureOutcomes(connection) ==
    {"connect_fail", "io_error", "bad_json"} \cup (IF connection.use_ssl THEN {"ssl_error"} ELSE {})

PING == "ping_ms"

\* api.py:151-155
UnreachableResult(host, ports) ==
    [error |-> "Server is unreachable", host |-> host, ports |-> ports]

\* api.py:192-200
MalformedResult(connection, method) ==
    [ping |-> PING,
     error |-> "Malformed response: Missing 'result' field",
     response_id |-> 1,
     response_error |-> [code |-> -32601],
     method_used |-> method,
     connection_type |-> connection_type(connection),
     self_signed |-> connection.use_ssl]

\* The success return with self_signed set on both branches.
SuccessResultSelfSigned(connection, method, value) ==
    [ping |-> PING,
     result |-> value,
     method_used |-> method,
     connection_type |-> connection_type(connection),
     self_signed |-> TRUE]

\* api.py:202-208
SuccessResult(connection, method, value) ==
    [ping |-> PING,
     result |-> value,
     method_used |-> method,
     connection_type |-> connection_type(connection),
     self_signed |-> connection.use_ssl]

\* api.py:222-226
AllFailedResult(host, ports) ==
    [error |-> "All methods failed or server is unreachable", host |-> host, ports |-> ports]

CkHost == Get(ck_msg, "host", "")
CkOptions == connection_options(ck_ports)
CkMethods == methods(ck_method)
CkParams == method_params(ck_params)

\* The reachability loop without the return of api.py:150-155: the RPC phase
\* starts whether or not a connect succeeded.
ProbeReachNoReturn ==
    /\ ck_pc = "reach"
    /\ IF CkOptions = << >>
       THEN /\ probe_result' = UnreachableResult(CkHost, ck_ports)
            /\ ck_pc' = "probed"
            /\ UNCHANGED <<ck_ci, ck_mi, ck_reach>>
       ELSE \E ok \in BOOLEAN :
            /\ ck_reach' = Append(ck_reach, [conn |-> connection_type(CkOptions[ck_ci]), ok |-> ok])
            /\ IF ok \/ ck_ci = Len(CkOptions)
               THEN /\ ck_pc' = "rpc"
                    /\ ck_ci' = 1
                    /\ ck_mi' = 1
                    /\ UNCHANGED probe_result
               ELSE /\ ck_ci' = ck_ci + 1
                    /\ UNCHANGED <<ck_pc, ck_mi, probe_result>>
    /\ UNCHANGED <<ck_entry, ck_msg, ck_ports, ck_method, ck_params, ck_attempts, api_response,
                   server_data, ck_stored, ck_exc>>
    /\ UNCHANGED <<sys_vars, lib_vars>>

\* api.py:129-155, one iteration of the reachability loop (or its exit when
\* there is no option at all).
ProbeReach ==
    /\ ck_pc = "reach"
    /\ IF CkOptions = << >>
       THEN /\ probe_result' = UnreachableResult(CkHost, ck_ports)
            /\ ck_pc' = "probed"
            /\ UNCHANGED <<ck_ci, ck_mi, ck_reach>>
       ELSE \E ok \in BOOLEAN :
            /\ ck_reach' = Append(ck_reach, [conn |-> connection_type(CkOptions[ck_ci]), ok |-> ok])
            /\ IF ok
               THEN /\ ck_pc' = "rpc"
                    /\ ck_ci' = 1
                    /\ ck_mi' = 1
                    /\ UNCHANGED probe_result
               ELSE IF ck_ci < Len(CkOptions)
                    THEN /\ ck_ci' = ck_ci + 1
                         /\ UNCHANGED <<ck_pc, ck_mi, probe_result>>
                    ELSE /\ probe_result' = UnreachableResult(CkHost, ck_ports)
                         /\ ck_pc' = "probed"
                         /\ UNCHANGED <<ck_ci, ck_mi>>
    /\ UNCHANGED <<ck_entry, ck_msg, ck_ports, ck_method, ck_params, ck_attempts, api_response,
                   server_data, ck_stored, ck_exc>>
    /\ UNCHANGED <<sys_vars, lib_vars>>

\* A `continue` that starts the method list of the last connection over
\* instead of leaving the loops.
ProbeContinueAgain ==
    IF ck_mi < Len(CkMethods)
    THEN /\ ck_mi' = ck_mi + 1
         /\ UNCHANGED <<ck_ci, ck_pc, probe_result>>
    ELSE IF ck_ci < Len(CkOptions)
         THEN /\ ck_ci' = ck_ci + 1
              /\ ck_mi' = 1
              /\ UNCHANGED <<ck_pc, probe_result>>
         ELSE /\ ck_mi' = 1
              /\ UNCHANGED <<ck_ci, ck_pc, probe_result>>

\* The `continue` of api.py:210-215: the next method of the same connection,
\* then the first method of the next connection, then the final return.
ProbeContinue ==
    IF ck_mi < Len(CkMethods)
    THEN /\ ck_mi' = ck_mi + 1
         /\ UNCHANGED <<ck_ci, ck_pc, probe_result>>
    ELSE IF ck_ci < Len(CkOptions)
         THEN /\ ck_ci' = ck_ci + 1
              /\ ck_mi' = 1
              /\ UNCHANGED <<ck_pc, probe_result>>
         ELSE /\ probe_result' = AllFailedResult(CkHost, ck_ports)
              /\ ck_pc' = "probed"
              /\ UNCHANGED <<ck_ci, ck_mi>>

\* api.py:191-200: what the probe does with a reply that has no "result".
ProbeNoResult ==
    /\ probe_result' = MalformedResult(CkOptions[ck_ci], CkMethods[ck_mi])
    /\ ck_pc' = "probed"
    /\ UNCHANGED <<ck_ci, ck_mi>>

\* api.py:158-226, one (connection, method) attempt.
ProbeRpc ==
    /\ ck_pc = "rpc"
    /\ LET connection == CkOptions[ck_ci]
           method == CkMethods[ck_mi]
           attempt(outcome) == [conn |-> connection_type(connection), method |-> method,
                                params |-> CkParams[ck_mi], ci |-> ck_ci, mi |-> ck_mi,
                                outcome |-> outcome]
       IN \/ \E f \in FailureOutcomes(connection) :
                /\ ck_attempts' = Append(ck_attempts, attempt(f))
                /\ ProbeContinue
          \/ /\ ck_attempts' = Append(ck_attempts, attempt("no_result"))
             /\ ProbeNoResult
          \/ \E value \in ResultValues :
                /\ ck_attempts' = Append(ck_attempts, attempt("result"))
                /\ probe_result' = SuccessResult(connection, method, value)
                /\ ck_pc' = "probed"
                /\ UNCHANGED <<ck_ci, ck_mi>>
    /\ UNCHANGED <<ck_entry, ck_msg, ck_ports, ck_method, ck_params, ck_reach, api_response,
                   server_data, ck_stored, ck_exc>>
    /\ UNCHANGED <<sys_vars, lib_vars>>

-----------------------------------------------------------------------------
(* The HTTP API in front of the probe: electrum_query, src/btc/api.py *)

\* api.py:246-270. struct.unpack of header[76:80] raises when the string
\* encodes fewer than 80 bytes; bytes beyond the 80th are ignored.
ParseRaises(hex) == hex.nbytes < 80
parse_block_header(hex) ==
    [version |-> "hdr_version", prev_block |-> "hdr_prev_block",
     merkle_root |-> "hdr_merkle_root", timestamp |-> "hdr_timestamp",
     timestamp_human |-> "hdr_timestamp_human", bits |-> "hdr_bits", nonce |-> "hdr_nonce"]

\* api.py:230-242: no resolution for .onion; otherwise the resolver's answer.
endswith_onion(hostname) == hostname \in {"explorerzydxu5ecjrkwceayqybizmpjjznk5izmitf2modhcusuqlid.onion"}
resolve_hostname_to_ips(hostname) ==
    IF endswith_onion(hostname) THEN << >> ELSE << "203.0.113.7" >>

HttpResponse(code, body) == [kind |-> "http", code |-> code, body |-> body]

\* api.py:362-404. `result` is what query_electrumx_server returned; None when
\* the input check at 366 returns before the probe is called.
electrum_query(server_url, result) ==
    IF server_url = ""
    THEN HttpResponse(400, [error |-> "Server URL is required"])
    ELSE LET flattened_result ==
                 [host |-> server_url,
                  resolved_ips |-> resolve_hostname_to_ips(server_url),
                  ping |-> Get(result, "ping", None),
                  method_used |-> Get(result, "method_used", None),
                  connection_type |-> Get(result, "connection_type", None),
                  self_signed |-> Get(result, "self_signed", None),
                  version |-> Get(result, "version", "unknown"),
                  error |-> Get(result, "error", "")]
         IN IF "result" \notin DOMAIN result
            THEN HttpResponse(200, flattened_result)
            ELSE IF result["result"].t # "dict"
                 \* dict.update(int) / dict.update(None): TypeError, not caught: HTTP 500
                 THEN HttpResponse(500, [error |-> "Internal Server Error"])
                 ELSE LET inner == result["result"].v
                          merged == Update(flattened_result, inner)
                      IN IF "hex" \notin DOMAIN inner
                         THEN HttpResponse(200, merged)
                         ELSE IF ParseRaises(inner["hex"])
                              THEN HttpResponse(200, Update(merged, [hex_parse_error |-> "struct.error"]))
                              ELSE HttpResponse(200, Pop(Update(merged, parse_block_header(inner["hex"])), "hex"))

-----------------------------------------------------------------------------
(* The BTC checker worker, src/checkers/btc/worker.py *)

ServerErrorTypes == {"host_unreachable", "connection_error", "protocol_error"}

\* worker.py:37-89. `response` is the outcome of requests.get: an HTTP
\* response, a timeout, or another requests exception.
query_server_data(host, port, electrum_version, response, utcnow) ==
    IF response.kind # "http"
    THEN PyNone                                            \* 74-79
    ELSE IF response.code = 400
         THEN LET error_type == Get(response.body, "error_type", "unknown")
              IN IF error_type \in ServerErrorTypes
                 THEN [host |-> host, port |-> port, height |-> 0,
                       server_version |-> electrum_version,
                       LastUpdated |-> utcnow, error |-> TRUE,
                       error_type |-> error_type,
                       error_message |-> response.body["error"]]
                 ELSE PyNone                               \* 68-71
         ELSE IF response.code >= 400
              THEN PyNone                                  \* raise_for_status, 73, 77-79
              ELSE Update(response.body,
                          [host |-> host, port |-> port,
                           electrum_version |-> electrum_version,
                           LastUpdated |-> utcnow, error |-> FALSE])

\* (Variant: the failure record of 117-127 without the request's check_id and
\* user_submitted.)
record_to_store_unstamped(data, queried, utcnow) ==
    IF Truthy(queried)
    THEN Update(queried, [user_submitted |-> Get(data, "user_submitted", FALSE),
                          check_id |-> Get(data, "check_id", "none")])
    ELSE [host |-> data["host"], port |-> Get(data, "port", 50002), height |-> 0,
          LastUpdated |-> utcnow, error |-> TRUE,
          error_type |-> "connection_failed",
          error_message |-> "Failed to connect or timeout",
          user_submitted |-> FALSE, check_id |-> "none"]

\* worker.py:106-129: the record process_check_request hands to redis.set.
record_to_store(data, queried, utcnow) ==
    LET host == data["host"]
        port == Get(data, "port", 50002)
        check_id == Get(data, "check_id", "none")
        user_submitted == Get(data, "user_submitted", FALSE)
    IN IF Truthy(queried)
       THEN Update(queried, [user_submitted |-> user_submitted, check_id |-> check_id])
       ELSE [host |-> host, port |-> port, height |-> 0,
             LastUpdated |-> utcnow, error |-> TRUE,
             error_type |-> "connection_failed",
             error_message |-> "Failed to connect or timeout",
             user_submitted |-> user_submitted, check_id |-> check_id]

\* worker.py:95-96: json.loads and data['host'] raise on a payload that is
\* not a JSON object holding "host".
PayloadRaises(data) == "host" \notin DOMAIN data

\* What requests.get can deliver besides the API's own response.
TransportFailures == { [kind |-> "timeout"], [kind |-> "request_exception"] }

-----------------------------------------------------------------------------
(* The registry (Redis), the clock and the bus (NATS) *)

\* Granularity of the clock and the end of the modelled time, in seconds.
TimeStep == 60
MaxTime == 300
\* Publisher cycles and dashboard triggers modelled.
MaxCycles == 2
MaxTriggers == 1

\* publisher.py:12: int(os.environ.get('CHECK_INTERVAL', 300))
DEFAULT_CHECK_INTERVAL == 300
\* Values of CHECK_INTERVAL the environment may set: the default and one minute
\* (the lower end of the publish interval).
CheckIntervals == {DEFAULT_CHECK_INTERVAL, 60}
\* CHECK_INTERVAL = 60, for the specifications that need several cycles
\* within the modelled time.
RACE_CHECK_INTERVAL == 60

\* discovery.py:57: datetime.min, older than every interval at any modelled time.
DATETIME_MIN == -1000000

BtcHost == ClearHost
ZecHost == "zec.rocks"
BtcKey == "btc:electrum.example.org"
ZecKey == "zec:zec.rocks"
RedisKeys == {BtcKey, ZecKey}
\* publisher.py:80-81: network = key[:3], host = key[4:]
KeyNetwork(key) == IF key = BtcKey THEN "btc" ELSE "zec"
KeyHost(key) == IF key = BtcKey THEN BtcHost ELSE ZecHost
\* worker.py:113, 128: f"btc:{host}"
WorkerKey(host) == IF host = BtcHost THEN BtcKey ELSE "btc:" \o host

\* discovery.py:52-58 and 66-71: the record of a newly discovered server.
DiscoveredRecord(key) ==
    IF KeyNetwork(key) = "btc"
    THEN [host |-> KeyHost(key), port |-> 50002, version |-> "unknown", height |-> 0,
          LastUpdated |-> DATETIME_MIN]
    ELSE [host |-> KeyHost(key), port |-> 443, height |-> 0, LastUpdated |-> DATETIME_MIN]

NATS_PREFIX == "hosh."
\* worker.py:13
NATS_SUBJECT == "hosh.check.btc"
Workers == {"w1", "w2"}
\* worker.py:147-148: every worker subscribes to NATS_SUBJECT, and to nothing
\* else, in queue group "btc_checkers".
Subscriptions(w) == {NATS_SUBJECT}
Subscribers(subject) == {w \in Workers : subject \in Subscriptions(w)}

\* nc.publish: a queue group hands the message to one of its members; a
\* message on a subject nobody subscribes to is discarded by the server.
\* (Subscribers outside these sources, such as a ZEC checker, are not modelled.)
\* The members of sequence q at the positions in S, in order.
RECURSIVE SubSeqOf(_, _)
SubSeqOf(q, S) ==
    IF q = << >> THEN << >>
    ELSE LET rest == SubSeqOf(Tail(q), {n - 1 : n \in S \ {1}})
         IN IF 1 \in S THEN <<Head(q)>> \o rest ELSE rest

\* (Variant: a plain subscription of every worker, without a queue group, hands
\* each of them a copy.)
DeliverToAll(msg) ==
    IF Subscribers(msg.subject) = {}
    THEN /\ dropped' = dropped \cup {msg.mid}
         /\ UNCHANGED inbox
    ELSE /\ inbox' = [w \in Workers |-> IF w \in Subscribers(msg.subject)
                                         THEN Append(inbox[w], msg) ELSE inbox[w]]
         /\ UNCHANGED dropped

Deliver(msg) ==
    IF Subscribers(msg.subject) = {}
    THEN /\ dropped' = dropped \cup {msg.mid}
         /\ UNCHANGED inbox
    ELSE /\ \E w \in Subscribers(msg.subject) :
              inbox' = [inbox EXCEPT ![w] = Append(@, msg)]
         /\ UNCHANGED dropped

\* The envelope the model keeps for a published message: the payload, plus
\* where, when and by whom it was published.
Envelope(subject, payload, source, key) ==
    [mid |-> Len(emitted) + 1, subject |-> subject, payload |-> payload,
     source |-> source, key |-> key, at |-> now, cycle |-> pub_cycle,
     results_before |-> {results[i].mid : i \in 1..Len(results)}]

\* The clock advances while the publisher sleeps (or does not run), and the sleep ends on time: a
\* scan of the registry and a wake-up take far less than one TimeStep.
Tick ==
    /\ now < MaxTime
    /\ \/ pub_pc = "stopped"
       \/ pub_pc = "sleeping" /\ (now < pub_wake \/ pub_cycle >= MaxCycles)
    /\ now' = now + TimeStep
    /\ UNCHANGED <<SERVER_REFRESH_INTERVAL_SECONDS, redis, pub_pc, pub_keys, pub_cycle,
                   pub_wake, pub_log, emitted, inbox, dropped, results, handled>>
    /\ UNCHANGED <<ck_vars, lib_vars>>

-----------------------------------------------------------------------------
(* The publisher, src/publisher/publisher.py *)

\* publisher.py:38
USER_RECENT_SECONDS == 60

\* is_stale with the one-minute window of line 38 in place of the refresh
\* interval of line 51.
is_stale_minute(data, current_time) ==
    IF "LastUpdated" \notin DOMAIN data
    THEN TRUE
    ELSE LET age == current_time - data["LastUpdated"]
         IN IF Get(data, "user_submitted", FALSE) /\ age < USER_RECENT_SECONDS
            THEN FALSE
            ELSE age > USER_RECENT_SECONDS

\* A LastUpdated text is modelled by the instant it denotes, in seconds; NOT_ISO
\* stands for a text datetime.fromisoformat rejects (publisher.py:28, 43).
NOT_ISO == DATETIME_MIN - 1

\* (Variant: a record without a usable LastUpdated counts as fresh.)
is_stale_lenient(data, current_time) ==
    IF "LastUpdated" \notin DOMAIN data
    THEN FALSE
    ELSE IF data["LastUpdated"] = NOT_ISO
    THEN FALSE
    ELSE LET age == current_time - data["LastUpdated"]
         IN IF Get(data, "user_submitted", FALSE) /\ age < USER_RECENT_SECONDS
            THEN FALSE
            ELSE age > SERVER_REFRESH_INTERVAL_SECONDS

\* publisher.py:20-54, with `current_time` the clock read at 34 / 49. A
\* missing LastUpdated returns True at 24, a ValueError of fromisoformat
\* returns True at 52-54.
is_stale(data, current_time) ==
    IF "LastUpdated" \notin DOMAIN data
    THEN TRUE
    ELSE IF data["LastUpdated"] = NOT_ISO
    THEN TRUE
    ELSE LET age == current_time - data["LastUpdated"]
         IN IF Get(data, "user_submitted", FALSE) /\ age < USER_RECENT_SECONDS
            THEN FALSE
            ELSE age > SERVER_REFRESH_INTERVAL_SECONDS

\* publisher.py:75: the entry is skipped.
Skipped(data, current_time) ==
    ~Get(data, "user_submitted", FALSE) /\ ~is_stale(data, current_time)

\* (Variant: a request that does not take user_submitted from the record.)
check_data_unflagged(key, data) ==
    LET network == KeyNetwork(key)
        base == [type |-> network,
                 host |-> KeyHost(key),
                 port |-> Get(data, "port", IF network = "btc" THEN 50002 ELSE 9067),
                 user_submitted |-> FALSE,
                 check_id |-> Get(data, "check_id", None)]
    IN IF network = "btc"
       THEN Update(base, [version |-> Get(data, "version", "unknown")])
       ELSE base

\* publisher.py:83-93
check_data(key, data) ==
    LET network == KeyNetwork(key)
        base == [type |-> network,
                 host |-> KeyHost(key),
                 port |-> Get(data, "port", IF network = "btc" THEN 50002 ELSE 9067),
                 user_submitted |-> Get(data, "user_submitted", FALSE),
                 check_id |-> Get(data, "check_id", None)]
    IN IF network = "btc"
       THEN Update(base, [version |-> Get(data, "version", "unknown")])
       ELSE base

\* publisher.py:96
PublisherSubject(key) == NATS_PREFIX \o "check." \o KeyNetwork(key)

KeysWithPrefix(network) == {k \in DOMAIN redis : KeyNetwork(k) = network}
\* Some order of a set of at most two keys (Redis KEYS returns them unordered).
Orders(S) == {q \in UNION {[1..n -> S] : n \in 0..2} :
                 /\ Len(q) = Cardinality(S)
                 /\ \A i, j \in 1..Len(q) : i # j => q[i] # q[j]}

PubUnchanged == UNCHANGED <<now, SERVER_REFRESH_INTERVAL_SECONDS, redis, results, handled>>

\* What the publisher did with one entry of a cycle (the print calls of
\* publish_checks).
LogEntry(key, data, decision) ==
    [cycle |-> pub_cycle, key |-> key, at |-> now, observed |-> data, decision |-> decision]

\* publisher.py:61-64 for one prefix: redis.keys answers, or raises and the
\* cycle is abandoned in the handler of 105-106.
PubScan(network) ==
    /\ pub_pc = "scan_" \o network
    /\ \/ /\ \E q \in Orders(KeysWithPrefix(network)) : pub_keys' = q
          /\ pub_pc' = "keys_" \o network
          /\ UNCHANGED pub_log
       \/ /\ pub_pc' = "except"
          /\ pub_keys' = << >>
          /\ pub_log' = Append(pub_log, LogEntry(network \o ":*", PyNone, "read_failed"))
    /\ UNCHANGED <<pub_cycle, pub_wake, emitted, inbox, dropped>>
    /\ PubUnchanged
    /\ UNCHANGED <<ck_vars, lib_vars>>

\* Values of a registry key that are not a JSON object: the empty string
\* (publisher.py:69), text json.loads rejects (100), and JSON that is not an
\* object, on which data.get raises (102).
EmptyValue == [raw |-> ""]
InvalidJson == [raw |-> "{not json"]
NotAnObject == [raw |-> "[]"]
BadValues == {EmptyValue, InvalidJson, NotAnObject}

\* publisher.py:68-103: what handling one entry comes to, apart from the
\* publish itself: "empty" (continue at 70; redis.get answers None for a key
\* deleted since the scan), "json_error" (100), "build_error" (102),
\* "skipped" (77) or "due".
EntryDecision(key) ==
    IF key \notin DOMAIN redis THEN "empty"
    ELSE IF redis[key] = EmptyValue THEN "empty"
    ELSE IF redis[key] = InvalidJson THEN "json_error"
    ELSE IF redis[key] = NotAnObject THEN "build_error"
    ELSE IF Skipped(redis[key], now) THEN "skipped"
    ELSE "due"

\* (Variant: no inner try at publisher.py:72-103; an entry that cannot be
\* decoded, built or published ends the cycle in the handler of 105-106.)
PubKeyUnguarded(network) ==
    /\ pub_pc = "keys_" \o network
    /\ pub_keys # << >>
    /\ LET key == Head(pub_keys)
           data == IF key \in DOMAIN redis THEN redis[key] ELSE EmptyValue
           decision == EntryDecision(key)
       IN \/ /\ decision \in {"empty", "skipped"}
             /\ pub_log' = Append(pub_log, LogEntry(key, data, decision))
             /\ pub_keys' = Tail(pub_keys)
             /\ UNCHANGED <<pub_pc, emitted, inbox, dropped>>
          \/ /\ decision = "due"
             /\ LET msg == Envelope(PublisherSubject(key), check_data(key, data),
                                    "publisher", key)
                IN /\ emitted' = Append(emitted, msg)
                   /\ Deliver(msg)
                   /\ pub_log' = Append(pub_log, LogEntry(key, data, "published"))
             /\ pub_keys' = Tail(pub_keys)
             /\ UNCHANGED pub_pc
          \/ /\ decision \in {"json_error", "build_error", "due"}
             /\ pub_log' = Append(pub_log,
                     LogEntry(key, data, IF decision = "due" THEN "publish_failed" ELSE decision))
             /\ pub_pc' = "except"
             /\ pub_keys' = << >>
             /\ UNCHANGED <<emitted, inbox, dropped>>
          \/ /\ pub_pc' = "except"
             /\ pub_keys' = << >>
             /\ pub_log' = Append(pub_log, LogEntry(key, PyNone, "read_failed"))
             /\ UNCHANGED <<emitted, inbox, dropped>>
    /\ UNCHANGED <<pub_cycle, pub_wake>>
    /\ PubUnchanged
    /\ UNCHANGED <<ck_vars, lib_vars>>

\* publisher.py:66-103 for one key: read, decide, build, publish. redis.get
\* (68) answers, or raises outside the inner try and the cycle is abandoned in
\* the handler of 105-106. nc.publish either hands the message to the bus or
\* raises (caught at 102).
PubKey(network) ==
    /\ pub_pc = "keys_" \o network
    /\ pub_keys # << >>
    /\ LET key == Head(pub_keys)
           data == IF key \in DOMAIN redis THEN redis[key] ELSE EmptyValue
           decision == EntryDecision(key)
       IN \/ /\ IF decision # "due"
                THEN /\ pub_log' = Append(pub_log, LogEntry(key, data, decision))
                     /\ UNCHANGED <<emitted, inbox, dropped>>
                ELSE \/ LET msg == Envelope(PublisherSubject(key), check_data(key, data),
                                            "publisher", key)
                        IN /\ emitted' = Append(emitted, msg)
                           /\ Deliver(msg)
                           /\ pub_log' = Append(pub_log, LogEntry(key, data, "published"))
                     \/ /\ pub_log' = Append(pub_log, LogEntry(key, data, "publish_failed"))
                        /\ UNCHANGED <<emitted, inbox, dropped>>
             /\ pub_keys' = Tail(pub_keys)
             /\ UNCHANGED pub_pc
          \/ /\ pub_pc' = "except"
             /\ pub_keys' = << >>
             /\ pub_log' = Append(pub_log, LogEntry(key, PyNone, "read_failed"))
             /\ UNCHANGED <<emitted, inbox, dropped>>
    /\ UNCHANGED <<pub_cycle, pub_wake>>
    /\ PubUnchanged
    /\ UNCHANGED <<ck_vars, lib_vars>>

\* The end of the inner loop for one prefix: on to the next prefix, or to the
\* sleep of publisher.py:108.
PubNext(network) ==
    /\ pub_pc = "keys_" \o network
    /\ pub_keys = << >>
    /\ pub_pc' = IF network = "btc" THEN "scan_zec" ELSE "sleep"
    /\ UNCHANGED <<pub_keys, pub_cycle, pub_wake, pub_log, emitted, inbox, dropped>>
    /\ PubUnchanged
    /\ UNCHANGED <<ck_vars, lib_vars>>

\* (Variant: no handler at 105-106; an exception of the registry leaves the loop.)
PubSleepUncaught ==
    /\ pub_pc = "sleep"
    /\ pub_pc' = "sleeping"
    /\ pub_wake' = now + SERVER_REFRESH_INTERVAL_SECONDS
    /\ UNCHANGED <<pub_keys, pub_cycle, pub_log, emitted, inbox, dropped>>
    /\ PubUnchanged
    /\ UNCHANGED <<ck_vars, lib_vars>>

\* publisher.py:108: asyncio.sleep(SERVER_REFRESH_INTERVAL_SECONDS) begins, at
\* the end of the cycle or after the handler of 105-106 has printed the error.
PubSleep ==
    /\ pub_pc \in {"sleep", "except"}
    /\ pub_pc' = "sleeping"
    /\ pub_wake' = now + SERVER_REFRESH_INTERVAL_SECONDS
    /\ UNCHANGED <<pub_keys, pub_cycle, pub_log, emitted, inbox, dropped>>
    /\ PubUnchanged
    /\ UNCHANGED <<ck_vars, lib_vars>>

\* The sleep ends and the next cycle starts at publisher.py:58-61.
PubWake ==
    /\ pub_pc = "sleeping"
    /\ now >= pub_wake
    /\ pub_cycle < MaxCycles
    /\ pub_pc' = "scan_btc"
    /\ pub_cycle' = pub_cycle + 1
    /\ UNCHANGED <<pub_keys, pub_wake, pub_log, emitted, inbox, dropped>>
    /\ PubUnchanged
    /\ UNCHANGED <<ck_vars, lib_vars>>

-----------------------------------------------------------------------------
(* One check, step by step (SpecCheck) *)

\* Payloads a worker can find on its subject. The last one has the shape the
\* dashboard publishes for HTTP checks (nats_client.py:70-76): no "host".
CkRequests ==
    { [type |-> "btc", host |-> ClearHost, port |-> 50002, user_submitted |-> FALSE,
       check_id |-> None, version |-> "unknown"],
      [host |-> ClearHost, port |-> 50002, version |-> "unknown",
       check_id |-> "uuid-1", user_submitted |-> TRUE],
      [host |-> "", port |-> 50002, version |-> "unknown",
       check_id |-> "uuid-2", user_submitted |-> FALSE],
      [url |-> "https://explorer.example", port |-> 80, check_id |-> None,
       user_submitted |-> FALSE, dry_run |-> FALSE] }

\* process_check_request, worker.py:94-102: decode the payload.
WorkerReceive ==
    /\ ck_pc = "recv"
    /\ IF PayloadRaises(ck_msg)
       THEN /\ ck_exc' = "KeyError"          \* caught at 131, printed
            /\ ck_pc' = "done"
       ELSE /\ ck_pc' = "api"
            /\ UNCHANGED ck_exc
    /\ UNCHANGED <<ck_entry, ck_msg, ck_ports, ck_method, ck_params, ck_ci, ck_mi, ck_reach,
                   ck_attempts, probe_result, api_response, server_data, ck_stored>>
    /\ UNCHANGED <<sys_vars, lib_vars>>

\* electrum_query, api.py:362-373: the input check, then the probe is called
\* with {"s": port} and no method.
ApiStart ==
    /\ ck_pc = "api"
    /\ IF CkHost = ""
       THEN /\ api_response' = electrum_query(CkHost, PyNone)
            /\ ck_pc' = "query"
       ELSE /\ ck_pc' = "reach"
            /\ UNCHANGED api_response
    /\ UNCHANGED <<ck_entry, ck_msg, ck_ports, ck_method, ck_params, ck_ci, ck_mi, ck_reach,
                   ck_attempts, probe_result, server_data, ck_stored, ck_exc>>
    /\ UNCHANGED <<sys_vars, lib_vars>>

\* electrum_query, api.py:376-404: flatten the probe's result and answer.
ApiRespond ==
    /\ ck_pc = "probed"
    /\ ck_entry = "pipeline"
    /\ api_response' = electrum_query(CkHost, probe_result)
    /\ ck_pc' = "query"
    /\ UNCHANGED <<ck_entry, ck_msg, ck_ports, ck_method, ck_params, ck_ci, ck_mi, ck_reach,
                   ck_attempts, probe_result, server_data, ck_stored, ck_exc>>
    /\ UNCHANGED <<sys_vars, lib_vars>>

\* A direct call of query_electrumx_server returns to its caller.
ProbeReturn ==
    /\ ck_pc = "probed"
    /\ ck_entry = "probe"
    /\ ck_pc' = "done"
    /\ UNCHANGED <<ck_entry, ck_msg, ck_ports, ck_method, ck_params, ck_ci, ck_mi, ck_reach,
                   ck_attempts, probe_result, api_response, server_data, ck_stored, ck_exc>>
    /\ UNCHANGED <<sys_vars, lib_vars>>

\* query_server_data as called at worker.py:104: requests.get returns the
\* API's response, or times out after 30 s, or fails.
WorkerQuery ==
    /\ ck_pc = "query"
    /\ \E response \in {api_response} \cup TransportFailures :
         server_data' = query_server_data(CkHost, Get(ck_msg, "port", 50002),
                                          Get(ck_msg, "version", "unknown"), response, now)
    /\ ck_pc' = "store"
    /\ UNCHANGED <<ck_entry, ck_msg, ck_ports, ck_method, ck_params, ck_ci, ck_mi, ck_reach,
                   ck_attempts, probe_result, api_response, ck_stored, ck_exc>>
    /\ UNCHANGED <<sys_vars, lib_vars>>

\* process_check_request, worker.py:106-132: redis.set either stores the
\* record or raises (the exception is caught at 131 and printed).
WorkerStore ==
    /\ ck_pc = "store"
    /\ \E redis_ok \in BOOLEAN :
         IF redis_ok
         THEN /\ ck_stored' = Append(ck_stored, record_to_store(ck_msg, server_data, now))
              /\ UNCHANGED ck_exc
         ELSE /\ ck_exc' = "redis.exceptions.ConnectionError"
              /\ UNCHANGED ck_stored
    /\ ck_pc' = "done"
    /\ UNCHANGED <<ck_entry, ck_msg, ck_ports, ck_method, ck_params, ck_ci, ck_mi, ck_reach,
                   ck_attempts, probe_result, api_response, server_data>>
    /\ UNCHANGED <<sys_vars, lib_vars>>

\* The (method, params) arguments of a direct call of the probe.
ProbeCalls ==
    { [method |-> None, params |-> << >>],
      [method |-> "server.version", params |-> << "hosh", "1.4" >>],
      [method |-> "server.features", params |-> << >>] }

\* No call of parse_block_header on its own.
HdrIdle ==
    /\ hdr_hex = << >>
    /\ hdr_other = << >>
    /\ hdr_parsed = PyNone
    /\ hdr_other_parsed = PyNone

\* The process-wide socket state as the interpreter starts, and no request
\* thread running a probe.
Threads == {"t1", "t2"}
IdleThread == [pc |-> "idle", phase |-> "reach", host |-> "", mi |-> 1, reachable |-> FALSE,
               last |-> PyNone, pending |-> PyNone, result |-> PyNone]
TorIdle ==
    /\ socket_socket = "socket"
    /\ default_proxy = "none"
    /\ probe_thread = [t \in Threads |-> IdleThread]

TrigIdle == trigger_calls = << >>
RaceIdle ==
    /\ w_pending = [w \in {"w1", "w2"} |-> PyNone]
    /\ disc_pending = {}
LibIdle == HdrIdle /\ TorIdle /\ TrigIdle /\ RaceIdle

CkIdle ==
    /\ ck_pc = "done"
    /\ ck_entry = "pipeline"
    /\ ck_msg = [host |-> ClearHost]
    /\ ck_ports = [kind |-> "dict", s |-> TRUE, t |-> FALSE]
    /\ ck_method = None
    /\ ck_params = << >>
    /\ ck_ci = 1
    /\ ck_mi = 1
    /\ ck_reach = << >>
    /\ ck_attempts = << >>
    /\ probe_result = PyNone
    /\ api_response = PyNone
    /\ server_data = PyNone
    /\ ck_stored = << >>
    /\ ck_exc = ""

SysIdle ==
    /\ now = 0
    /\ SERVER_REFRESH_INTERVAL_SECONDS = DEFAULT_CHECK_INTERVAL
    /\ redis = << >>
    /\ pub_pc = "sleep"
    /\ pub_keys = << >>
    /\ pub_cycle = 0
    /\ pub_wake = 0
    /\ pub_log = << >>
    /\ emitted = << >>
    /\ inbox = << >>
    /\ dropped = {}
    /\ results = << >>
    /\ handled = {}

InitCheck ==
    /\ SysIdle
    /\ LibIdle
    /\ ck_entry \in {"pipeline", "probe"}
    /\ IF ck_entry = "pipeline"
       THEN /\ ck_msg \in CkRequests
            /\ ck_ports = [kind |-> "dict", s |-> TRUE, t |-> FALSE]   \* api.py:373
            /\ ck_method = None                                          \* api.py:373
            /\ ck_params = << >>                                         \* the default of api.py:106
            /\ ck_pc = "recv"
       ELSE /\ ck_msg = [host |-> ClearHost]
            /\ ck_ports \in PortSpecs
            /\ \E call \in ProbeCalls : ck_method = call.method /\ ck_params = call.params
            /\ ck_pc = "reach"
    /\ ck_ci = 1
    /\ ck_mi = 1
    /\ ck_reach = << >>
    /\ ck_attempts = << >>
    /\ probe_result = PyNone
    /\ api_response = PyNone
    /\ server_data = PyNone
    /\ ck_stored = << >>
    /\ ck_exc = ""

NextCheck ==
    \/ WorkerReceive
    \/ ApiStart
    \/ ProbeReach
    \/ ProbeRpc
    \/ ApiRespond
    \/ ProbeReturn
    \/ WorkerQuery
    \/ WorkerStore

SpecCheck == InitCheck /\ [][NextCheck]_vars

\* Every step of a check ends: the connects and reads of the probe carry
\* timeouts (api.py:139, 174), requests.get carries one (worker.py:44), and
\* nothing in the handlers waits on anything else.
SpecCheckFair == SpecCheck /\ WF_vars(NextCheck)

-----------------------------------------------------------------------------
(* The dashboard's on-demand trigger, src/contrib/dashboard/data/nats_client.py *)

\* nats_client.py:163: str(uuid.uuid4())
Uuid(n) == IF n = 1 THEN "uuid-1" ELSE IF n = 2 THEN "uuid-2" ELSE "uuid-3"
Triggered == {i \in 1..Len(emitted) : emitted[i].source = "trigger"}

\* nats_client.py:167-171
TriggerSubject(chain_type, user_submitted) ==
    IF chain_type = "btc" /\ user_submitted
    THEN NATS_PREFIX \o "check." \o chain_type \o ".user"
    ELSE NATS_PREFIX \o "check." \o chain_type

\* The rows of the Clickhouse table `targets` the dashboard queries: one per
\* target, with the time of its last check. The table is filled outside these
\* sources; the model reads it off the registry records.
targets ==
    {[hostname |-> KeyHost(k), module |-> KeyNetwork(k),
      last_checked_at |-> Get(redis[k], "LastUpdated", DATETIME_MIN)] : k \in DOMAIN redis}

\* nats_client.py:135-144: SELECT DISTINCT hostname FROM targets WHERE
\* module = chain_type AND last_checked_at < now() - INTERVAL 5 MINUTE
TRIGGER_QUERY_AGE == 300
StaleHosts(chain_type) ==
    {r.hostname : r \in {x \in targets : /\ x.module = chain_type
                                          /\ x.last_checked_at < now - TRIGGER_QUERY_AGE}}

\* nats_client.py:157-164: the message built for the n-th host of the loop.
TriggerMessage(chain_type, hostname, user_submitted, n) ==
    [host |-> hostname,
     port |-> IF chain_type = "btc" THEN 50002 ELSE 9067,
     version |-> "unknown",
     check_id |-> Uuid(Cardinality(Triggered) + n),
     user_submitted |-> user_submitted]

\* publish_chain_check_trigger(chain_type, specific_host, user_submitted),
\* nats_client.py:113-187: the whole call. With a specific host the list of
\* hosts is that host (131-133); without one it is the answer of the query
\* (134-149), and an empty answer ends the call with False (151-153). Every
\* host of the list gets one message (156-174).
Trigger(chain_type, specific_host, user_submitted) ==
    /\ Len(trigger_calls) < MaxTriggers
    /\ LET hosts == IF specific_host # None THEN {specific_host} ELSE StaleHosts(chain_type)
           subject == TriggerSubject(chain_type, user_submitted)
       IN \E q \in Orders(hosts) :
             LET msgs == [n \in 1..Len(q) |->
                            [Envelope(subject,
                                      TriggerMessage(chain_type, q[n], user_submitted, n),
                                      "trigger", WorkerKey(q[n]))
                                EXCEPT !.mid = Len(emitted) + n]]
             IN /\ emitted' = emitted \o msgs
                /\ IF Subscribers(subject) = {}
                   THEN /\ dropped' = dropped \cup {msgs[n].mid : n \in 1..Len(msgs)}
                        /\ UNCHANGED inbox
                   ELSE /\ \E to \in [1..Len(msgs) -> Subscribers(subject)] :
                             inbox' = [w \in Workers |->
                                          inbox[w] \o SubSeqOf(msgs, {n \in 1..Len(msgs) : to[n] = w})]
                        /\ UNCHANGED dropped
                /\ trigger_calls' = Append(trigger_calls,
                       [chain_type |-> chain_type, specific_host |-> specific_host,
                        user_submitted |-> user_submitted, at |-> now,
                        published |-> {msgs[n].mid : n \in 1..Len(msgs)},
                        returned |-> hosts # {}])
    /\ UNCHANGED <<now, SERVER_REFRESH_INTERVAL_SECONDS, redis, pub_pc, pub_keys, pub_cycle,
                   pub_wake, pub_log, results, handled>>
    /\ UNCHANGED <<ck_vars, hdr_vars, tor_vars, race_vars>>

-----------------------------------------------------------------------------
(* The workers of the distributed system *)

\* What GET /electrum/query can answer for a host (api.py:362-404), by probe outcome.
ApiResponses(host) ==
    { electrum_query(host, SuccessResult([use_ssl |-> TRUE], DEFAULT_METHOD,
                                         JDict([hex |-> HeaderHex, height |-> 840123]))),
      electrum_query(host, SuccessResult([use_ssl |-> TRUE], "blockchain.numblocks.subscribe",
                                         JInt(840123))) }

WorkerUnchanged == UNCHANGED <<now, SERVER_REFRESH_INTERVAL_SECONDS, pub_pc, pub_keys, pub_cycle,
                               pub_wake, pub_log, emitted, dropped>>

\* process_check_request, worker.py:92-132, run by the subscription callback
\* (142-144) on the next delivered message. The handler holds no await, so it
\* runs to its end: decode, query_server_data (the backend answers, times out
\* or fails), then redis.set, which stores the record or raises (caught at 131).
WProcess(w) ==
    /\ inbox[w] # << >>
    /\ LET msg == Head(inbox[w])
           data == msg.payload
       IN /\ inbox' = [inbox EXCEPT ![w] = Tail(@)]
          /\ handled' = handled \cup {msg.mid}
          /\ IF PayloadRaises(data)
             THEN UNCHANGED <<redis, results>>
             ELSE \E response \in ApiResponses(data["host"]) \cup TransportFailures :
                    LET queried == query_server_data(data["host"], Get(data, "port", 50002),
                                       Get(data, "version", "unknown"), response, now)
                        record == record_to_store(data, queried, now)
                        key == WorkerKey(data["host"])
                    IN \/ /\ redis' = [k \in (DOMAIN redis) \cup {key} |->
                                          IF k = key THEN record ELSE redis[k]]
                          /\ results' = Append(results, [mid |-> msg.mid, key |-> key,
                                                         at |-> now, record |-> record])
                       \/ UNCHANGED <<redis, results>>
    /\ WorkerUnchanged
    /\ UNCHANGED <<ck_vars, lib_vars>>

-----------------------------------------------------------------------------
(* The distributed system (Spec) *)

\* A record a worker stored at time 0, before the modelled time starts.
CheckedRecord(user_submitted, check_id) ==
    record_to_store([host |-> BtcHost, port |-> 50002, check_id |-> check_id,
                     user_submitted |-> user_submitted],
                    query_server_data(BtcHost, 50002, "unknown",
                        electrum_query(BtcHost,
                            SuccessResult([use_ssl |-> TRUE], DEFAULT_METHOD,
                                          JDict([hex |-> HeaderHex, height |-> 840123]))), 0),
                    0)

\* A user-submitted target whose last check a worker stored two hours before
\* the modelled time starts.
StaleUserRecord == [CheckedRecord(TRUE, "uuid-0") EXCEPT !["LastUpdated"] = 0 - 7200]

InitialRecords(key) ==
    IF key = BtcKey
    THEN {DiscoveredRecord(key), CheckedRecord(FALSE, None), CheckedRecord(TRUE, "uuid-0"),
          StaleUserRecord}
    ELSE {DiscoveredRecord(key)}

InitRegistry(intervals) ==
    /\ CkIdle
    /\ LibIdle
    /\ now = 0
    /\ SERVER_REFRESH_INTERVAL_SECONDS \in intervals
    /\ redis \in {r \in [RedisKeys -> UNION {InitialRecords(k) : k \in RedisKeys}] :
                     \A k \in RedisKeys : r[k] \in InitialRecords(k)}
    /\ pub_pc = "scan_btc"
    /\ pub_keys = << >>
    /\ pub_cycle = 1
    /\ pub_wake = 0
    /\ pub_log = << >>
    /\ emitted = << >>
    /\ inbox = [w \in Workers |-> << >>]
    /\ dropped = {}
    /\ results = << >>
    /\ handled = {}

\* The system as deployed with the default CHECK_INTERVAL.
Init == InitRegistry({DEFAULT_CHECK_INTERVAL})

Next ==
    \/ Tick
    \/ \E network \in {"btc", "zec"} : PubScan(network) \/ PubKey(network) \/ PubNext(network)
    \/ PubSleep
    \/ PubWake
    \/ \E w \in Workers : WProcess(w)

Spec == Init /\ [][Next]_vars

\* The publisher task is scheduled by its event loop (publisher.py:127) and
\* its sleep ends when the time has passed; the clock advances.
PublisherLoop ==
    \/ \E network \in {"btc", "zec"} : PubScan(network) \/ PubKey(network) \/ PubNext(network)
    \/ PubSleep
    \/ PubWake
SpecLive == Spec /\ WF_vars(Tick) /\ WF_vars(PublisherLoop)

\* The same system over a registry in which some value is not a JSON object
\* (written by another client of the Redis instance).
FaultyRecords(key) ==
    BadValues \cup (IF key = BtcKey THEN {DiscoveredRecord(key), StaleUserRecord}
                                    ELSE {DiscoveredRecord(key)})
InitFaulty ==
    /\ CkIdle
    /\ LibIdle
    /\ now = 0
    /\ SERVER_REFRESH_INTERVAL_SECONDS = DEFAULT_CHECK_INTERVAL
    /\ redis \in {r \in [RedisKeys -> UNION {FaultyRecords(k) : k \in RedisKeys}] :
                     /\ \A k \in RedisKeys : r[k] \in FaultyRecords(k)
                     /\ \E k \in RedisKeys : r[k] \in BadValues}
    /\ pub_pc = "scan_btc"
    /\ pub_keys = << >>
    /\ pub_cycle = 1
    /\ pub_wake = 0
    /\ pub_log = << >>
    /\ emitted = << >>
    /\ inbox = [w \in Workers |-> << >>]
    /\ dropped = {}
    /\ results = << >>
    /\ handled = {}
SpecFaulty == InitFaulty /\ [][Next]_vars

\* The publisher alone, just started with CHECK_INTERVAL = 60, its task and
\* the clock scheduled fairly (SpecStarve). Cycles are counted from 0 here, so
\* that three of them fall into the modelled time. The BTC target's record is
\* a fresh placeholder of discovery, the result of a check completed at time
\* 0, or a record whose LastUpdated is missing or is not ISO text.
UntimedRecord ==
    [k \in DOMAIN CheckedRecord(FALSE, None) \ {"LastUpdated"} |-> CheckedRecord(FALSE, None)[k]]
UnparsableRecord == [CheckedRecord(FALSE, None) EXCEPT !["LastUpdated"] = NOT_ISO]
StarveRecords(key) ==
    IF key = BtcKey
    THEN {DiscoveredRecord(key), CheckedRecord(FALSE, None), UntimedRecord, UnparsableRecord}
    ELSE {DiscoveredRecord(key)}
InitStarve ==
    /\ CkIdle
    /\ LibIdle
    /\ now = 0
    /\ SERVER_REFRESH_INTERVAL_SECONDS = RACE_CHECK_INTERVAL
    /\ redis \in {r \in [RedisKeys -> UNION {StarveRecords(k) : k \in RedisKeys}] :
                     \A k \in RedisKeys : r[k] \in StarveRecords(k)}
    /\ pub_pc = "scan_btc"
    /\ pub_keys = << >>
    /\ pub_cycle = 0
    /\ pub_wake = 0
    /\ pub_log = << >>
    /\ emitted = << >>
    /\ inbox = [w \in Workers |-> << >>]
    /\ dropped = {}
    /\ results = << >>
    /\ handled = {}
NextStarve ==
    \/ Tick
    \/ PublisherLoop
SpecStarve == InitStarve /\ [][NextStarve]_vars /\ WF_vars(Tick) /\ WF_vars(PublisherLoop)

\* The same system with CHECK_INTERVAL set by the environment.
InitEnv == InitRegistry(CheckIntervals)
SpecEnv == InitEnv /\ [][Next]_vars

\* The dashboard's trigger and the workers, with no publisher running.
InitTrigger ==
    /\ CkIdle
    /\ LibIdle
    /\ now = 0
    /\ SERVER_REFRESH_INTERVAL_SECONDS = DEFAULT_CHECK_INTERVAL
    /\ redis \in {r \in [RedisKeys -> UNION {InitialRecords(k) : k \in RedisKeys}] :
                     \A k \in RedisKeys : r[k] \in InitialRecords(k)}
    /\ pub_pc = "stopped"
    /\ pub_keys = << >>
    /\ pub_cycle = 0
    /\ pub_wake = 0
    /\ pub_log = << >>
    /\ emitted = << >>
    /\ inbox = [w \in Workers |-> << >>]
    /\ dropped = {}
    /\ results = << >>
    /\ handled = {}

NextTrigger ==
    \/ Tick
    \/ \E chain_type \in {"btc", "zec"}, user_submitted \in BOOLEAN :
          \E specific_host \in {None, IF chain_type = "btc" THEN BtcHost ELSE ZecHost} :
              Trigger(chain_type, specific_host, user_submitted)
    \/ \E w \in Workers : WProcess(w)

SpecTrigger == InitTrigger /\ [][NextTrigger]_vars

-----------------------------------------------------------------------------
(* parse_block_header at the level of bytes (SpecHeader), src/btc/api.py *)
(* (src/collector/utils.py holds a copy of the same function).           *)

\* A hex string is the sequence of the values of its digits, a bytes object
\* the sequence of its bytes. bytes.fromhex raises ValueError on an odd number
\* of digits; both cases of a digit have the same value.
FromHexRaises(hex) == Len(hex) % 2 = 1
bytes_fromhex(hex) == [i \in 1..(Len(hex) \div 2) |-> 16 * hex[2 * i - 1] + hex[2 * i]]

\* bytes.hex()
bytes_hex(b) == [i \in 1..(2 * Len(b)) |->
                   IF i % 2 = 1 THEN b[(i + 1) \div 2] \div 16 ELSE b[i \div 2] % 16]

\* b[start:stop] of Python, for 0 <= start <= stop.
Slice(b, start, stop) ==
    LET last == IF stop < Len(b) THEN stop ELSE Len(b)
    IN IF start >= last THEN << >> ELSE [i \in 1..(last - start) |-> b[start + i]]

\* b[::-1]
Reversed(b) == [i \in 1..Len(b) |-> b[Len(b) + 1 - i]]

\* An unsigned 32-bit value v is kept as its two 16-bit halves, v = 65536 * hi + lo
\* (TLC's integers end at 2^31 - 1).
\* struct.unpack('<I', b)[0]; it raises struct.error unless b has four bytes.
unpack_le_u32(b) == [lo |-> b[1] + 256 * b[2], hi |-> b[3] + 256 * b[4]]

\* struct.unpack('>I', b)[0]
unpack_be_u32(b) == [lo |-> b[4] + 256 * b[3], hi |-> b[2] + 256 * b[1]]

\* datetime.datetime.utcfromtimestamp(timestamp): defined on every 32-bit value.
utcfromtimestamp(timestamp) == [utc |-> timestamp]

StructError == [raised |-> "struct.error"]
ValueError == [raised |-> "ValueError"]

\* parse_block_header with the two hashes left in the order of the header.
parse_block_header_unreversed(header_hex) ==
    IF FromHexRaises(header_hex)
    THEN ValueError
    ELSE LET header == bytes_fromhex(header_hex)
         IN IF Len(header) < 80
            THEN StructError
            ELSE LET timestamp == unpack_le_u32(Slice(header, 68, 72))
                 IN [version |-> unpack_le_u32(Slice(header, 0, 4)),
                     prev_block |-> bytes_hex(Slice(header, 4, 36)),
                     merkle_root |-> bytes_hex(Slice(header, 36, 68)),
                     timestamp |-> timestamp,
                     timestamp_human |-> utcfromtimestamp(timestamp),
                     bits |-> unpack_le_u32(Slice(header, 72, 76)),
                     nonce |-> unpack_le_u32(Slice(header, 76, 80))]

\* parse_block_header with the integers unpacked as '>I'.
parse_block_header_big_endian(header_hex) ==
    IF FromHexRaises(header_hex)
    THEN ValueError
    ELSE LET header == bytes_fromhex(header_hex)
         IN IF Len(header) < 80
            THEN StructError
            ELSE LET timestamp == unpack_be_u32(Slice(header, 68, 72))
                 IN [version |-> unpack_be_u32(Slice(header, 0, 4)),
                     prev_block |-> bytes_hex(Reversed(Slice(header, 4, 36))),
                     merkle_root |-> bytes_hex(Reversed(Slice(header, 36, 68))),
                     timestamp |-> timestamp,
                     timestamp_human |-> utcfromtimestamp(timestamp),
                     bits |-> unpack_be_u32(Slice(header, 72, 76)),
                     nonce |-> unpack_be_u32(Slice(header, 76, 80))]

\* api.py:246-270. The first unpack of a slice shorter than four bytes raises
\* struct.error: that happens exactly when the header has fewer than 80 bytes
\* (the slices of the two hashes never raise).
parse_block_header_bytes(header_hex) ==
    IF FromHexRaises(header_hex)
    THEN ValueError
    ELSE LET header == bytes_fromhex(header_hex)
         IN IF Len(header) < 80
            THEN StructError
            ELSE LET timestamp == unpack_le_u32(Slice(header, 68, 72))
                 IN [version |-> unpack_le_u32(Slice(header, 0, 4)),
                     prev_block |-> bytes_hex(Reversed(Slice(header, 4, 36))),
                     merkle_root |-> bytes_hex(Reversed(Slice(header, 36, 68))),
                     timestamp |-> timestamp,
                     timestamp_human |-> utcfromtimestamp(timestamp),
                     bits |-> unpack_le_u32(Slice(header, 72, 76)),
                     nonce |-> unpack_le_u32(Slice(header, 76, 80))]

\* The 80-byte headers the function is called on: all bytes zero but one,
\* which is 1 or 255; the bytes 1, 2, ..., 80; all bytes 255.
HEADER_BYTES == 80
OneByteSet(p, v) == [i \in 1..HEADER_BYTES |-> IF i = p THEN v ELSE 0]
HeaderInputs ==
    {OneByteSet(p, v) : p \in 1..HEADER_BYTES, v \in {1, 255}}
       \cup {[i \in 1..HEADER_BYTES |-> i], [i \in 1..HEADER_BYTES |-> 255]}

InitHeader ==
    /\ CkIdle
    /\ SysIdle
    /\ TorIdle
    /\ TrigIdle
    /\ RaceIdle
    /\ hdr_hex \in {bytes_hex(h) : h \in HeaderInputs}
    /\ hdr_other \in {bytes_hex(h) : h \in HeaderInputs}
    /\ hdr_parsed = PyNone
    /\ hdr_other_parsed = PyNone

\* The two calls of parse_block_header.
ParseHeader ==
    /\ hdr_parsed = PyNone
    /\ hdr_parsed' = parse_block_header_bytes(hdr_hex)
    /\ hdr_other_parsed' = parse_block_header_bytes(hdr_other)
    /\ UNCHANGED <<hdr_hex, hdr_other>>
    /\ UNCHANGED <<ck_vars, sys_vars, tor_vars, trig_vars, race_vars>>

NextHeader == ParseHeader

SpecHeader == InitHeader /\ [][NextHeader]_vars

-----------------------------------------------------------------------------
(* Probes run by the request threads of one process (SpecTor):               *)
(* query_electrumx_server as electrum_query calls it, with the process-wide  *)
(* socket.socket and the socks module's default proxy. Each statement that   *)
(* reads or writes them is one step.                                         *)

OnionHost == "explorerzydxu5ecjrkwceayqybizmpjjznk5izmitf2modhcusuqlid.onion"
\* api.py:373: the ports argument of every probe the endpoint starts.
ApiPorts == [kind |-> "dict", s |-> TRUE, t |-> FALSE]

\* socket.create_connection((host, port)) first resolves the name with
\* getaddrinfo, whatever socket.socket is; a .onion name is refused by an
\* ordinary resolver (gaierror) and answered by one that maps .onion names.
Resolutions(host) == IF endswith_onion(host) THEN {"gaierror", "resolved"} ELSE {"resolved"}

\* Then it calls socket.socket(af, socktype, proto) and connects the object:
\*   the socket class              a direct connection
\*   socks.socksocket              through the default proxy, if one is set
\*   the function create_connection   TypeError: the address cannot be unpacked
ConnectionRoute(dns) ==
    IF dns = "gaierror" THEN "none"
    ELSE IF socket_socket = "socket" THEN "direct"
    ELSE IF socket_socket = "socksocket"
         THEN (IF default_proxy = "tor" THEN "tor" ELSE "direct")
         ELSE "none"

\* How the connect ends: proxy_error is socks.ProxyConnectionError / a failed
\* SOCKS handshake.
ConnectOutcomes(route) ==
    IF route = "none" THEN {"raised"}
    ELSE IF route = "tor" THEN {"connected", "refused", "proxy_error"}
    ELSE {"connected", "refused"}

ThreadUnchanged == UNCHANGED <<ck_vars, sys_vars, hdr_vars, trig_vars, race_vars>>

\* The start of one iteration of either loop: api.py:133 / 169.
IterationStart(host) == IF endswith_onion(host) THEN "proxy" ELSE "connect"

\* What follows an iteration's `finally`: api.py:150-158 after the
\* reachability loop, and the return / continue / fall-through of 202-226.
Advance(th) ==
    IF th.phase = "reach"
    THEN IF th.reachable
         THEN [th EXCEPT !.phase = "rpc", !.mi = 1, !.pc = IterationStart(th.host)]
         ELSE [th EXCEPT !.pc = "done", !.result = UnreachableResult(th.host, ApiPorts)]
    ELSE IF th.pending # PyNone
         THEN [th EXCEPT !.pc = "done", !.result = th.pending]
         ELSE IF th.mi < 3
              THEN [th EXCEPT !.mi = th.mi + 1, !.pc = IterationStart(th.host)]
              ELSE [th EXCEPT !.pc = "done", !.result = AllFailedResult(th.host, ApiPorts)]

\* A request thread enters query_electrumx_server (api.py:106-127).
ThreadStart(t) ==
    /\ probe_thread[t].pc = "idle"
    /\ \E host \in {OnionHost, ClearHost} :
         probe_thread' = [probe_thread EXCEPT ![t] =
                             [@ EXCEPT !.host = host, !.pc = IterationStart(host)]]
    /\ UNCHANGED <<socket_socket, default_proxy>>
    /\ ThreadUnchanged

\* api.py:135 / 171: socks.set_default_proxy(socks.SOCKS5, TOR_PROXY_HOST, TOR_PROXY_PORT)
ThreadSetProxy(t) ==
    /\ probe_thread[t].pc = "proxy"
    /\ default_proxy' = "tor"
    /\ probe_thread' = [probe_thread EXCEPT ![t].pc = "factory"]
    /\ UNCHANGED socket_socket
    /\ ThreadUnchanged

\* api.py:136 / 172: socket.socket = socks.socksocket
ThreadSetFactory(t) ==
    /\ probe_thread[t].pc = "factory"
    /\ socket_socket' = "socksocket"
    /\ probe_thread' = [probe_thread EXCEPT ![t].pc = "connect"]
    /\ UNCHANGED default_proxy
    /\ ThreadUnchanged

\* api.py:139-143 (reachability) and 174-215 (one RPC attempt): the connect,
\* and for an RPC the exchange on the connection.
ThreadConnect(t) ==
    /\ probe_thread[t].pc = "connect"
    /\ LET th == probe_thread[t]
       IN \E dns \in Resolutions(th.host) :
          \E outcome \in ConnectOutcomes(ConnectionRoute(dns)) :
          \E answered \in BOOLEAN :
             LET attempt == [phase |-> th.phase, dns |-> dns,
                             route |-> ConnectionRoute(dns), outcome |-> outcome]
                 after == [th EXCEPT
                             !.last = attempt,
                             !.reachable = IF th.phase = "reach"
                                           THEN outcome = "connected" ELSE @,
                             !.pending = IF th.phase = "rpc" /\ outcome = "connected" /\ answered
                                         THEN SuccessResult([use_ssl |-> TRUE], methods(None)[th.mi],
                                                  JDict([hex |-> HeaderHex, height |-> 840123]))
                                         ELSE PyNone]
             IN /\ (th.phase = "reach" \/ outcome # "connected") => answered
                /\ probe_thread' = [probe_thread EXCEPT ![t] =
                       IF endswith_onion(th.host)
                       THEN [after EXCEPT !.pc = "unproxy"]
                       ELSE Advance(after)]
    /\ UNCHANGED <<socket_socket, default_proxy>>
    /\ ThreadUnchanged

\* api.py:147 / 219: socks.set_default_proxy(None)
ThreadUnsetProxy(t) ==
    /\ probe_thread[t].pc = "unproxy"
    /\ default_proxy' = "none"
    /\ probe_thread' = [probe_thread EXCEPT ![t].pc = "unfactory"]
    /\ UNCHANGED socket_socket
    /\ ThreadUnchanged

\* api.py:148 / 220: socket.socket = socket.create_connection
ThreadUnsetFactory(t) ==
    /\ probe_thread[t].pc = "unfactory"
    /\ socket_socket' = "create_connection"
    /\ probe_thread' = [probe_thread EXCEPT ![t] = Advance(probe_thread[t])]
    /\ UNCHANGED default_proxy
    /\ ThreadUnchanged

InitTor ==
    /\ CkIdle
    /\ SysIdle
    /\ HdrIdle
    /\ TorIdle
    /\ TrigIdle
    /\ RaceIdle

NextTor ==
    \E t \in Threads :
        \/ ThreadStart(t)
        \/ ThreadSetProxy(t)
        \/ ThreadSetFactory(t)
        \/ ThreadConnect(t)
        \/ ThreadUnsetProxy(t)
        \/ ThreadUnsetFactory(t)

SpecTor == InitTor /\ [][NextTor]_vars

-----------------------------------------------------------------------------
(* Properties of one check (checked under SpecCheck) *)

ProbeReturned == probe_result # PyNone
MalformedMessage == "Malformed response: Missing 'result' field"

\* C1: a reply without a top-level "result" makes the probe go on to the next
\* method; the probe never returns from such an attempt, except by exhausting
\* every (connection, method) pair, and then with the all-methods-failed result.
\* In scenario S3 (headers.subscribe answers without "result", server.features
\* answers with one) the probe ends online with method_used = server.features.
C1_MissingResultMovesOn ==
    /\ (ProbeReturned /\ ck_attempts # << >> /\ Last(ck_attempts).outcome = "no_result")
          => probe_result = AllFailedResult(CkHost, ck_ports)
    /\ (ProbeReturned /\ Len(ck_attempts) >= 1
          /\ ck_attempts[1].method = DEFAULT_METHOD /\ ck_attempts[1].outcome = "no_result")
          => /\ Len(ck_attempts) >= 2
             /\ ck_attempts[2].method = "server.features"
             /\ (ck_attempts[2].outcome = "result"
                   => /\ "result" \in DOMAIN probe_result
                      /\ probe_result.method_used = "server.features")

\* The status of a probe result: online when it carries a result.
ProbeOnline(r) == "result" \in DOMAIN r
\* The status of a stored record: online when its error flag is False.
RecordOnline(r) == r.error = FALSE

\* C2: in every result of a check, online implies a ping that is not null, and
\* an error (kind or message) is present exactly when the result is offline;
\* for the probe's own result and for the record the worker stores.
C2_ResultWellFormed ==
    /\ ProbeReturned =>
          /\ ProbeOnline(probe_result) => Get(probe_result, "ping", None) # None
          /\ ("error" \in DOMAIN probe_result) <=> ~ProbeOnline(probe_result)
    /\ \A i \in 1..Len(ck_stored) :
          /\ RecordOnline(ck_stored[i]) => Get(ck_stored[i], "ping", None) # None
          /\ ("error_type" \in DOMAIN ck_stored[i]) <=> ~RecordOnline(ck_stored[i])

\* C3: every request a worker receives ends with exactly one stored result,
\* whatever the probe's outcome.
C3_ExactlyOneResult ==
    (ck_entry = "pipeline" /\ ck_pc = "done" /\ ~PayloadRaises(ck_msg))
       => Len(ck_stored) = 1

\* C4: when handling a request raises an unexpected exception, the worker
\* still emits a result for it: offline, error kind internal_error.
C4_ExceptionYieldsInternalError ==
    (ck_entry = "pipeline" /\ ck_pc = "done" /\ ck_exc # "")
       => /\ Len(ck_stored) = 1
          /\ ~RecordOnline(ck_stored[1])
          /\ Get(ck_stored[1], "error_type", None) = "internal_error"

\* Every reachability connect was refused and the probe returned unreachable.
AllRefused ==
    /\ ProbeReturned
    /\ ck_reach # << >>
    /\ \A i \in 1..Len(ck_reach) : ~ck_reach[i].ok
    /\ probe_result = UnreachableResult(CkHost, ck_ports)

\* C5: when every transport refuses the TCP connection (S4) and the worker
\* gets the backend's answer, the record stored for the check is a failure:
\* error flag set, error kind host_unreachable, ping null.
C5_UnreachableIsFailure ==
    (AllRefused /\ server_data # PyNone /\ Len(ck_stored) = 1)
       => /\ ~RecordOnline(ck_stored[1])
          /\ Get(ck_stored[1], "error_type", None) = "host_unreachable"
          /\ Get(ck_stored[1], "ping", None) = None

-----------------------------------------------------------------------------
(* Properties of the publisher and the bus *)

\* The publisher's emissions for one key in one cycle.
EmittedFor(cycle, key) ==
    {i \in 1..Len(emitted) : /\ emitted[i].source = "publisher"
                             /\ emitted[i].cycle = cycle
                             /\ emitted[i].key = key}

PublisherEmissions == {i \in 1..Len(emitted) : emitted[i].source = "publisher"}

\* The record the publisher read is of a target that is not user-submitted and
\* whose last check is within the refresh interval.
RecentlyChecked(e) ==
    /\ "LastUpdated" \in DOMAIN e.observed
    /\ ~Get(e.observed, "user_submitted", FALSE)
    /\ e.at - e.observed["LastUpdated"] <= SERVER_REFRESH_INTERVAL_SECONDS

\* C6: whenever a publisher cycle reads a target that is not user-submitted and
\* whose last check is within the refresh interval, the cycle skips it and
\* emits no check request for it.
C6_RecentTargetNotEmitted ==
    \A i \in 1..Len(pub_log) :
        RecentlyChecked(pub_log[i]) =>
            /\ pub_log[i].decision = "skipped"
            /\ EmittedFor(pub_log[i].cycle, pub_log[i].key) = {}

\* C6's case: the second cycle skipped a target that a worker checked after
\* the first cycle had asked for it.
C6_Witness ==
    \E i \in 1..Len(pub_log) :
        /\ RecentlyChecked(pub_log[i])
        /\ pub_log[i].cycle = 2
        /\ pub_log[i].observed["LastUpdated"] > 0
        /\ pub_log[i].decision = "skipped"
        /\ EmittedFor(1, pub_log[i].key) # {}

\* C7: every target a cycle observed due got exactly one check request in that
\* cycle, and the registry holds for it a last_queued_at no older than its latest
\* emission.
C7_DueEmittedOnceAndQueued ==
    /\ \A i \in 1..Len(pub_log) :
          (pub_log[i].decision # "read_failed"
             /\ ~Skipped(pub_log[i].observed, pub_log[i].at)) =>
              Cardinality(EmittedFor(pub_log[i].cycle, pub_log[i].key)) = 1
    /\ \A i \in PublisherEmissions :
          /\ emitted[i].key \in DOMAIN redis
          /\ "last_queued_at" \in DOMAIN redis[emitted[i].key]
          /\ redis[emitted[i].key]["last_queued_at"] >= emitted[i].at

\* spec.md: in_flight_ttl, default 120 s. No counterpart in the sources.
IN_FLIGHT_TTL == 120

\* C8: the publisher emits for a BTC target only when each of its earlier
\* requests for that target has produced a result or is older than in_flight_ttl.
C8_OneInFlight ==
    \A i, j \in PublisherEmissions :
        (/\ i < j
         /\ emitted[i].key = emitted[j].key
         /\ KeyNetwork(emitted[i].key) = "btc") =>
            \/ emitted[i].mid \in emitted[j].results_before
            \/ emitted[j].at - emitted[i].at >= IN_FLIGHT_TTL

\* C9: any two check requests the publisher emitted carry different check_ids.
C9_FreshCheckId ==
    \A i, j \in PublisherEmissions :
        i # j => emitted[i].payload["check_id"] # emitted[j].payload["check_id"]

USER_LANE == "hosh.check.btc.user"

\* C10: a check request published on the user lane check.btc.user reaches a BTC
\* worker: the bus never discards it for want of a subscriber.
C10_UserLaneReceived ==
    \A i \in 1..Len(emitted) :
        emitted[i].subject = USER_LANE => emitted[i].mid \notin dropped

\* The record the publisher read is of a user-submitted BTC target whose last
\* check is older than the refresh interval.
StaleUserSubmitted(e) ==
    /\ KeyNetwork(e.key) = "btc"
    /\ "LastUpdated" \in DOMAIN e.observed
    /\ Get(e.observed, "user_submitted", FALSE)
    /\ e.at - e.observed["LastUpdated"] > SERVER_REFRESH_INTERVAL_SECONDS

\* C11: when the publisher emits for a user-submitted BTC target whose last
\* check is older than the refresh interval (S6), it emits exactly one request
\* in that cycle, on check.btc.user.
C11_UserSubmittedOnUserLane ==
    \A i \in 1..Len(pub_log) :
        (StaleUserSubmitted(pub_log[i]) /\ pub_log[i].decision = "published") =>
            /\ Cardinality(EmittedFor(pub_log[i].cycle, pub_log[i].key)) = 1
            /\ \A j \in EmittedFor(pub_log[i].cycle, pub_log[i].key) :
                  emitted[j].subject = USER_LANE

-----------------------------------------------------------------------------
(* Properties of the probe's order of attempts *)

\* The transports the caller's `ports` asks for, in the order the
\* specification gives them.
ExpectedTransports ==
    IF ck_ports.kind = "int"
    THEN << "Plaintext" >>
    ELSE (IF ck_ports.s THEN << "SSL" >> ELSE << >>)
         \o (IF ck_ports.t THEN << "Plaintext" >> ELSE << >>)

ExpectedMethods ==
    << IF ck_method = None THEN "blockchain.headers.subscribe" ELSE ck_method,
       "server.features",
       "blockchain.numblocks.subscribe" >>

ExpectedParams == << ck_params, << >>, << >> >>

\* The RPC attempts are made transport by transport, three methods each:
\* the position of attempt i in the list of transports, and in the methods.
TransportOf(i) == ((i - 1) \div 3) + 1
MethodOf(i) == ((i - 1) % 3) + 1

\* C12: transports are tried SSL first (when given), then plaintext (when
\* given); an integer `ports` gives one plaintext transport; no plaintext RPC
\* is attempted before every method has been tried on the SSL transport.
C12_SslBeforePlaintext ==
    /\ Len(ck_reach) <= Len(ExpectedTransports)
    /\ \A i \in 1..Len(ck_reach) : ck_reach[i].conn = ExpectedTransports[i]
    /\ \A i \in 1..Len(ck_attempts) :
          /\ TransportOf(i) <= Len(ExpectedTransports)
          /\ ck_attempts[i].conn = ExpectedTransports[TransportOf(i)]
    /\ \A i \in 1..Len(ck_attempts) :
          (ck_attempts[i].conn = "Plaintext" /\ ck_ports.kind = "dict" /\ ck_ports.s) =>
              \A k \in 1..3 : \E j \in 1..(i - 1) :
                  /\ ck_attempts[j].conn = "SSL"
                  /\ ck_attempts[j].method = ExpectedMethods[k]
    /\ ck_ports.kind = "int" =>
          /\ Len(ck_reach) <= 1
          /\ \A i \in 1..Len(ck_attempts) : ck_attempts[i].conn = "Plaintext"

\* C12's case: both ports given, the plaintext transport answered after the
\* three methods on SSL.
C12_Witness ==
    /\ ProbeReturned
    /\ ck_ports.kind = "dict" /\ ck_ports.s /\ ck_ports.t
    /\ Len(ck_attempts) = 4
    /\ ck_attempts[4].conn = "Plaintext"
    /\ ck_attempts[4].outcome = "result"

\* C13: within one transport the methods are attempted in the order: the
\* requested method (default blockchain.headers.subscribe) with the caller's
\* params, server.features with [], blockchain.numblocks.subscribe with []; a
\* later attempt is made only after every earlier one did not answer with a
\* result; method_used names the method whose response was returned.
C13_MethodOrder ==
    /\ \A i \in 1..Len(ck_attempts) :
          /\ ck_attempts[i].method = ExpectedMethods[MethodOf(i)]
          /\ ck_attempts[i].params = ExpectedParams[MethodOf(i)]
          /\ \A j \in 1..(i - 1) : ck_attempts[j].outcome # "result"
    /\ (ProbeReturned /\ "method_used" \in DOMAIN probe_result) =>
          /\ ck_attempts # << >>
          /\ Last(ck_attempts).outcome \in {"result", "no_result"}
          /\ probe_result["method_used"] = Last(ck_attempts).method

\* C13's case: a caller's method with params failed, server.features failed,
\* blockchain.numblocks.subscribe answered.
C13_Witness ==
    /\ ProbeReturned
    /\ ck_method = "server.version"
    /\ Len(ck_attempts) = 3
    /\ ck_attempts[1].params = << "hosh", "1.4" >>
    /\ ck_attempts[3].outcome = "result"
    /\ probe_result["method_used"] = "blockchain.numblocks.subscribe"

\* C14: in the RPC phase a connect failure ends the attempts on that
\* transport (the next attempt, if any, is on the next transport), and a
\* send/receive error is followed by the next method on the same transport.
C14_ConnectFailureSkipsTransport ==
    \A i \in 1..(Len(ck_attempts) - 1) :
        /\ ck_attempts[i].outcome = "connect_fail" =>
              ck_attempts[i + 1].conn # ck_attempts[i].conn
        /\ (ck_attempts[i].outcome = "io_error" /\ MethodOf(i) < 3) =>
              /\ ck_attempts[i + 1].conn = ck_attempts[i].conn
              /\ ck_attempts[i + 1].method = ExpectedMethods[MethodOf(i) + 1]

\* No reachability connect succeeded.
NoneConnected == ck_reach = << >> \/ ~Last(ck_reach).ok

\* C15: the probe first connects to each transport in order, stopping at the
\* first that accepts; when none accepts it returns "Server is unreachable"
\* (offline) without a single RPC attempt; when one accepts it goes on to
\* the RPC phase.
C15_ReachabilityFirst ==
    /\ \A i \in 1..Len(ck_reach) :
          /\ i <= Len(ExpectedTransports)
          /\ ck_reach[i].conn = ExpectedTransports[i]
          /\ i < Len(ck_reach) => ~ck_reach[i].ok
    /\ ck_attempts # << >> => ~NoneConnected
    /\ (ProbeReturned /\ NoneConnected) =>
          /\ Len(ck_reach) = Len(ExpectedTransports)
          /\ ck_attempts = << >>
          /\ "result" \notin DOMAIN probe_result
          /\ Get(probe_result, "error", None) = "Server is unreachable"
    /\ ~NoneConnected =>
          /\ ck_pc # "reach"
          /\ ProbeReturned =>
                /\ ck_attempts # << >>
                /\ Get(probe_result, "error", None) # "Server is unreachable"

\* C15's case: two transports, both refused, the probe returned.
C15_Witness ==
    /\ ProbeReturned
    /\ Len(ck_reach) = 2
    /\ ~ck_reach[1].ok /\ ~ck_reach[2].ok
    /\ ck_attempts = << >>
    /\ probe_result["error"] = "Server is unreachable"

AllFailedMessage == "All methods failed or server is unreachable"

\* C16: the probe returns "All methods failed" exactly when a reachability
\* connect succeeded and every (transport, method) pair was attempted without
\* a result; never while a pair is untried.
C16_AllFailedOnExhaustion ==
    ProbeReturned =>
        (Get(probe_result, "error", None) = AllFailedMessage
           <=> /\ ~NoneConnected
               /\ Len(ck_attempts) = 3 * Len(ExpectedTransports)
               /\ \A i \in 1..Len(ck_attempts) : ck_attempts[i].outcome # "result")

\* The work of one probe invocation is bounded, and no pair of the loops
\* (connection index, method index) is attempted twice.
ProbeBounded ==
    /\ Len(ck_reach) <= Len(ExpectedTransports)
    /\ Len(ck_attempts) <= 3 * Len(ExpectedTransports)
    /\ \A i, j \in 1..Len(ck_attempts) :
          i # j => <<ck_attempts[i].ci, ck_attempts[i].mi>> # <<ck_attempts[j].ci, ck_attempts[j].mi>>

\* C17: every probe invocation returns (online or offline) whatever the
\* remote end does, after at most transport_count reachability connects and
\* transport_count x 3 RPC attempts, no (transport, method) pair twice.
C17_ProbeTerminates ==
    /\ []ProbeBounded
    /\ (ck_pc = "reach") ~> (ProbeReturned /\ (ProbeOnline(probe_result) \/ "error" \in DOMAIN probe_result))

\* C17's case: two transports, every one of the six attempts failed, and the
\* probe returned.
C17_Witness ==
    /\ ProbeReturned
    /\ Len(ck_attempts) = 6
    /\ \A i \in 1..6 : ck_attempts[i].outcome \notin {"result", "no_result"}
    /\ probe_result["error"] = AllFailedMessage

\* Scenario S2: both ports given, the SSL port refuses every connect, and the
\* plaintext transport answers with a result.
SslRefusedPlaintextAnswers ==
    /\ ProbeReturned
    /\ ck_ports.kind = "dict" /\ ck_ports.s /\ ck_ports.t
    /\ ck_reach # << >> /\ ~ck_reach[1].ok
    /\ ck_attempts # << >>
    /\ \A i \in 1..Len(ck_attempts) :
          ck_attempts[i].conn = "SSL" => ck_attempts[i].outcome = "connect_fail"
    /\ Last(ck_attempts).conn = "Plaintext"
    /\ Last(ck_attempts).outcome = "result"

\* C18: when the SSL transport fails on every attempt and the plaintext
\* transport answers with a result (S2), the probe ends online with
\* connection_type = Plaintext and self_signed = false.
C18_PlaintextFallback ==
    SslRefusedPlaintextAnswers =>
        /\ ProbeOnline(probe_result)
        /\ probe_result["connection_type"] = "Plaintext"
        /\ probe_result["self_signed"] = FALSE

\* C18's case: S2 with the default method and a block header as the answer.
C18_Witness ==
    /\ SslRefusedPlaintextAnswers
    /\ Len(ck_attempts) = 4
    /\ probe_result["method_used"] = "blockchain.headers.subscribe"
    /\ probe_result["result"] = JDict([hex |-> HeaderHex, height |-> 840123])
    /\ probe_result["connection_type"] = "Plaintext"

\* C19: in every probe result that carries connection_type, it is SSL or
\* Plaintext, and self_signed is true exactly for SSL and false exactly for
\* Plaintext.
C19_SelfSignedIffSsl ==
    (ProbeReturned /\ "connection_type" \in DOMAIN probe_result) =>
        /\ probe_result["connection_type"] \in {"SSL", "Plaintext"}
        /\ "self_signed" \in DOMAIN probe_result
        /\ probe_result["self_signed"] \in BOOLEAN
        /\ probe_result["self_signed"] = TRUE <=> probe_result["connection_type"] = "SSL"
        /\ probe_result["self_signed"] = FALSE <=> probe_result["connection_type"] = "Plaintext"

\* C19's case: the probe returned the answer of a plaintext attempt whose
\* reply had no "result".
C19_Witness ==
    /\ ProbeReturned
    /\ "connection_type" \in DOMAIN probe_result
    /\ probe_result["connection_type"] = "Plaintext"
    /\ "error" \in DOMAIN probe_result
    /\ probe_result["self_signed"] = FALSE

\* C20: a reply whose "result" is null is an offline result (a protocol
\* error): the probe never returns it as a result, and the query endpoint
\* answers it with a structured body, not with an unhandled failure.
C20_NullResultIsProtocolError ==
    /\ ProbeReturned => Get(probe_result, "result", PyNone) # JNull
    /\ (api_response # PyNone /\ Get(probe_result, "result", PyNone) = JNull) =>
          /\ api_response.code = 200
          /\ api_response.body["error"] # ""

-----------------------------------------------------------------------------
(* Properties of the answer's interpretation *)

\* The worker got the backend's answer and stored a record.
StoredFromAnswer == server_data # PyNone /\ Len(ck_stored) = 1

\* C21: when the RPC result is a scalar integer, the check's result is
\* online with height equal to that integer: in the query endpoint's answer
\* and in the record the worker stores.
C21_IntegerResultIsHeight ==
    (ck_entry = "pipeline" /\ api_response # PyNone
       /\ Get(probe_result, "result", PyNone) = JInt(840123)) =>
        /\ api_response.code = 200
        /\ "height" \in DOMAIN api_response.body
        /\ api_response.body["height"] = 840123
        /\ StoredFromAnswer =>
              /\ RecordOnline(ck_stored[1])
              /\ ck_stored[1]["height"] = 840123

\* The probe returned a result that is an object holding a header hex whose
\* length is not 160 characters.
BadLengthHeader ==
    /\ ProbeReturned
    /\ ProbeOnline(probe_result)
    /\ probe_result["result"].t = "dict"
    /\ "hex" \in DOMAIN probe_result["result"].v
    /\ probe_result["result"].v["hex"].nbytes # 80

HeaderFields == {"prev_block", "merkle_root", "timestamp", "timestamp_human", "bits", "nonce"}

\* C22: a header hex that is not 160 characters long gives a protocol error:
\* the endpoint's answer carries an error and no parsed header field, and
\* the record stored from it is not online.
C22_BadHeaderLengthIsProtocolError ==
    (ck_entry = "pipeline" /\ api_response # PyNone /\ BadLengthHeader) =>
        /\ api_response.body["error"] # ""
        /\ HeaderFields \cap DOMAIN api_response.body = {}
        /\ StoredFromAnswer => ~RecordOnline(ck_stored[1])

-----------------------------------------------------------------------------
(* Properties of parse_block_header *)

\* The four bytes of an unsigned 32-bit value, least significant first.
LittleEndianBytes(v) == << v.lo % 256, v.lo \div 256, v.hi % 256, v.hi \div 256 >>

\* The re-serialization of a parsed header.
Serialize(parsed) ==
    LittleEndianBytes(parsed.version)
       \o Reversed(bytes_fromhex(parsed.prev_block))
       \o Reversed(bytes_fromhex(parsed.merkle_root))
       \o LittleEndianBytes(parsed.timestamp)
       \o LittleEndianBytes(parsed.bits)
       \o LittleEndianBytes(parsed.nonce)

HeaderParsed == hdr_parsed # PyNone

\* C23: for every 80-byte header, parsing and re-serializing gives the input
\* back byte for byte, and two headers with the same parse are the same header.
C23_HeaderRoundTrip ==
    HeaderParsed =>
        /\ "raised" \notin DOMAIN hdr_parsed
        /\ Serialize(hdr_parsed) = bytes_fromhex(hdr_hex)
        /\ hdr_parsed = hdr_other_parsed => hdr_hex = hdr_other

\* C23's case: a header whose only non-zero byte lies in prev_block was parsed
\* and is not all zero in the parsed hash.
C23_Witness ==
    /\ HeaderParsed
    /\ hdr_hex = bytes_hex(OneByteSet(5, 255))
    /\ hdr_parsed.prev_block[63] = 15
    /\ hdr_other # hdr_hex

\* Byte i (counted from 0) of the header that was passed in.
InputByte(i) == 16 * hdr_hex[2 * i + 1] + hdr_hex[2 * i + 2]
\* The unsigned little-endian value of the four input bytes from `first`.
InputU32(first) ==
    [lo |-> InputByte(first) + 256 * InputByte(first + 1),
     hi |-> InputByte(first + 2) + 256 * InputByte(first + 3)]
\* hash is the hex of the 32 input bytes from `first`, last byte first.
IsReversedHex(hash, first) ==
    /\ Len(hash) = 64
    /\ \A k \in 0..31 :
          /\ hash[2 * k + 1] = InputByte(first + 31 - k) \div 16
          /\ hash[2 * k + 2] = InputByte(first + 31 - k) % 16

\* C24: version is read from bytes [0..4), prev_block from [4..36), merkle_root
\* from [36..68), timestamp from [68..72), bits from [72..76), nonce from
\* [76..80); the integers are little-endian unsigned 32-bit values and the
\* hashes are the hex of the byte-reversed slices.
C24_HeaderLayout ==
    HeaderParsed =>
        /\ hdr_parsed.version = InputU32(0)
        /\ IsReversedHex(hdr_parsed.prev_block, 4)
        /\ IsReversedHex(hdr_parsed.merkle_root, 36)
        /\ hdr_parsed.timestamp = InputU32(68)
        /\ hdr_parsed.bits = InputU32(72)
        /\ hdr_parsed.nonce = InputU32(76)
        /\ \A f \in {"version", "timestamp", "bits", "nonce"} :
              hdr_parsed[f].lo \in 0..65535 /\ hdr_parsed[f].hi \in 0..65535

\* C24's case: the top byte of the nonce is 255, an unsigned value above 2^31.
C24_Witness ==
    /\ HeaderParsed
    /\ hdr_hex = bytes_hex(OneByteSet(80, 255))
    /\ hdr_parsed.nonce = [lo |-> 0, hi |-> 65280]

-----------------------------------------------------------------------------
(* The workers as separate processes (SpecRace): between the moment a worker *)
(* gets the backend's answer, stamped with LastUpdated, and its redis.set,   *)
(* the other worker and the clock can move.                                  *)

RaceUnchanged == UNCHANGED <<ck_vars, hdr_vars, tor_vars, trig_vars>>

\* process_check_request, worker.py:94-104: decode the next delivered message
\* and call query_server_data, which stamps LastUpdated when the backend has
\* answered (63, 86).
WQuery(w) ==
    /\ inbox[w] # << >>
    /\ w_pending[w] = PyNone
    /\ LET msg == Head(inbox[w])
           data == msg.payload
       IN /\ inbox' = [inbox EXCEPT ![w] = Tail(@)]
          /\ handled' = handled \cup {msg.mid}
          /\ IF PayloadRaises(data)
             THEN UNCHANGED w_pending
             ELSE \E response \in ApiResponses(data["host"]) \cup TransportFailures :
                    w_pending' = [w_pending EXCEPT ![w] =
                        [mid |-> msg.mid, data |-> data,
                         queried |-> query_server_data(data["host"], Get(data, "port", 50002),
                                         Get(data, "version", "unknown"), response, now)]]
    /\ UNCHANGED <<redis, results, disc_pending>>
    /\ WorkerUnchanged
    /\ RaceUnchanged

\* process_check_request, worker.py:106-132: build the record (the failure
\* record is stamped here, 121) and redis.set, which stores it or raises.
WStore(w) ==
    /\ w_pending[w] # PyNone
    /\ LET p == w_pending[w]
           record == record_to_store(p.data, p.queried, now)
           key == WorkerKey(p.data["host"])
       IN \/ /\ redis' = [k \in (DOMAIN redis) \cup {key} |->
                             IF k = key THEN record ELSE redis[k]]
             /\ results' = Append(results, [mid |-> p.mid, key |-> key,
                                            at |-> now, record |-> record])
          \/ UNCHANGED <<redis, results>>
    /\ w_pending' = [w_pending EXCEPT ![w] = PyNone]
    /\ UNCHANGED <<inbox, handled, disc_pending>>
    /\ WorkerUnchanged
    /\ RaceUnchanged

\* The publisher with CHECK_INTERVAL = 60 and the two workers.
InitRace == InitRegistry({RACE_CHECK_INTERVAL})

NextRace ==
    \/ Tick
    \/ PublisherLoop
    \/ \E w \in Workers : WQuery(w) \/ WStore(w)

SpecRace == InitRace /\ [][NextRace]_vars

-----------------------------------------------------------------------------
(* Discovery, src/discovery/discovery.py, next to the dashboard's trigger,   *)
(* the workers and the dashboard's "clear" button (SpecDiscovery)            *)

DiscUnchanged ==
    /\ UNCHANGED <<now, SERVER_REFRESH_INTERVAL_SECONDS, pub_pc, pub_keys, pub_cycle, pub_wake,
                   pub_log, emitted, inbox, dropped, results, handled>>
    /\ UNCHANGED <<ck_vars, hdr_vars, tor_vars, trig_vars, w_pending>>

\* discovery.py:51 / 65: `if not redis_client.exists(redis_key)` finds the key
\* missing. (The loop handles one server at a time.)
DiscExists(key) ==
    /\ disc_pending = {}
    /\ key \notin DOMAIN redis
    /\ disc_pending' = {key}
    /\ UNCHANGED redis
    /\ DiscUnchanged

\* discovery.py:52-59 / 66-72: build the placeholder record and redis.set it.
DiscSet(key) ==
    /\ key \in disc_pending
    /\ redis' = [k \in (DOMAIN redis) \cup {key} |->
                    IF k = key THEN DiscoveredRecord(key) ELSE redis[k]]
    /\ disc_pending' = {}
    /\ DiscUnchanged

\* clear_server_data, dashboard/data/redis_client.py:195-213: one
\* redis_client.delete(key) of its loop.
ClearKey(key) ==
    /\ key \in DOMAIN redis
    /\ redis' = [k \in (DOMAIN redis) \ {key} |-> redis[k]]
    /\ UNCHANGED disc_pending
    /\ DiscUnchanged

\* A deployment that starts with an empty registry; no publisher running.
EmptyRegistry == [k \in {} |-> PyNone]
InitDiscovery ==
    /\ CkIdle
    /\ LibIdle
    /\ now = 0
    /\ SERVER_REFRESH_INTERVAL_SECONDS = DEFAULT_CHECK_INTERVAL
    /\ redis = EmptyRegistry
    /\ pub_pc = "stopped"
    /\ pub_keys = << >>
    /\ pub_cycle = 0
    /\ pub_wake = 0
    /\ pub_log = << >>
    /\ emitted = << >>
    /\ inbox = [w \in Workers |-> << >>]
    /\ dropped = {}
    /\ results = << >>
    /\ handled = {}

NextDiscovery ==
    \/ Tick
    \/ \E chain_type \in {"btc", "zec"}, user_submitted \in BOOLEAN :
          \E specific_host \in {None, IF chain_type = "btc" THEN BtcHost ELSE ZecHost} :
              Trigger(chain_type, specific_host, user_submitted)
    \/ \E w \in Workers : WProcess(w)
    \/ \E key \in RedisKeys : DiscExists(key) \/ DiscSet(key) \/ ClearKey(key)

SpecDiscovery == InitDiscovery /\ [][NextDiscovery]_vars

-----------------------------------------------------------------------------
(* Properties of probes of .onion hosts *)

\* The connect attempts a thread has made so far are summarised by its last one.
OnionAttempts == {t \in Threads : /\ probe_thread[t].last # PyNone
                                   /\ endswith_onion(probe_thread[t].host)}
ClearnetAttempts == {t \in Threads : /\ probe_thread[t].last # PyNone
                                      /\ ~endswith_onion(probe_thread[t].host)}
NoProbeRunning == \A t \in Threads : probe_thread[t].pc \in {"idle", "done"}

\* C25: for a host ending in .onion, every connect attempt of the probe (the
\* reachability pre-check and each RPC attempt) goes through the Tor SOCKS5
\* proxy, and resolved_ips is the empty list.
C25_OnionThroughTor ==
    /\ resolve_hostname_to_ips(OnionHost) = << >>
    /\ \A t \in OnionAttempts : probe_thread[t].last.route = "tor"

\* C26: a probe of a non-onion host never connects through the SOCKS proxy,
\* and whenever no probe is running the process-wide socket factory and
\* default proxy have the values they had before any probe, so that a
\* clearnet probe connects directly.
C26_TorOnlyForOnion ==
    /\ \A t \in ClearnetAttempts : probe_thread[t].last.route = "direct"
    /\ NoProbeRunning => /\ socket_socket = "socket"
                         /\ default_proxy = "none"

\* C27: for a .onion host, when the SOCKS proxy cannot be reached or its
\* handshake fails during the reachability pre-check, the probe's result is
\* not the "Server is unreachable" of an unreachable host.
C27_ProxyFailureIsTorError ==
    \A t \in OnionAttempts :
        (/\ probe_thread[t].pc = "done"
         /\ probe_thread[t].last.phase = "reach"
         /\ probe_thread[t].last.outcome = "proxy_error")
            => probe_thread[t].result["error"] # "Server is unreachable"

-----------------------------------------------------------------------------
(* Properties of the order of registry update and publish, of triggers and   *)
(* of the queue group                                                        *)

\* This step hands a check request of the publisher to the bus.
PublisherPublishes ==
    /\ Len(emitted') = Len(emitted) + 1
    /\ emitted'[Len(emitted')].source = "publisher"

\* C28: the registry update for a target precedes the bus publish for it: at
\* every step in which the publisher publishes a check request, the registry
\* already records for that target a last_queued_at of the current time.
C28_QueuedBeforePublish ==
    [][PublisherPublishes =>
          LET key == emitted'[Len(emitted')].key
          IN /\ "last_queued_at" \in DOMAIN redis[key]
             /\ redis[key]["last_queued_at"] = now]_vars

\* The registry's targets of a module.
ModuleTargets(chain_type) == {k \in DOMAIN redis : KeyNetwork(k) = chain_type}

\* C29: a trigger naming a single host publishes exactly one check request,
\* for that host, whenever the host was last checked; a trigger without a host
\* publishes a check request for every target of the module, also for those
\* checked within the refresh interval.
C29_TriggerBypassesStaleness ==
    \A c \in 1..Len(trigger_calls) :
        LET call == trigger_calls[c]
        IN IF call.specific_host # None
           THEN /\ Cardinality(call.published) = 1
                /\ \A m \in call.published : emitted[m].payload.host = call.specific_host
           ELSE \A k \in ModuleTargets(call.chain_type) :
                    \E m \in call.published : emitted[m].payload.host = KeyHost(k)

\* The workers holding message m in their queue, the copies of m a worker
\* holds, and the results stored for m.
Holders(m) == {w \in Workers : \E n \in 1..Len(inbox[w]) : inbox[w][n].mid = m}
Copies(w, m) == {n \in 1..Len(inbox[w]) : inbox[w][n].mid = m}
ResultsOf(m) == {n \in 1..Len(results) : results[n].mid = m}

\* C30: with the workers subscribed in queue group btc_checkers on the same
\* subject, every check request published on that subject is handed to exactly
\* one worker and processed by it once: it waits in one worker's queue or has
\* been processed, never both and never at two workers, and it leads to at
\* most one stored result, stored by the worker that processed it.
C30_ExactlyOneWorker ==
    \A i \in 1..Len(emitted) :
        emitted[i].subject = NATS_SUBJECT =>
            LET m == emitted[i].mid
            IN /\ Cardinality(Holders(m)) + (IF m \in handled THEN 1 ELSE 0) = 1
               /\ \A w \in Holders(m) : Cardinality(Copies(w, m)) = 1
               /\ Cardinality(ResultsOf(m)) <= 1
               /\ m \notin handled => ResultsOf(m) = {}

\* Two workers are subscribed, and a published request has been processed and
\* its result stored while another waits in a worker's queue.
C30_Witness ==
    /\ Cardinality(Subscribers(NATS_SUBJECT)) = 2
    /\ \E i, j \in 1..Len(emitted) :
          /\ emitted[i].subject = NATS_SUBJECT
          /\ emitted[i].mid \in handled
          /\ ResultsOf(emitted[i].mid) # {}
          /\ emitted[j].subject = NATS_SUBJECT
          /\ Holders(emitted[j].mid) # {}

-----------------------------------------------------------------------------
(* Properties of the workers' results *)

\* Message j re-issues the check request of message i: the same host and the
\* same check_id, on the workers' subject, less than in_flight_ttl later.
Reissued(i, j) ==
    /\ i < j
    /\ emitted[i].subject = NATS_SUBJECT
    /\ emitted[j].subject = NATS_SUBJECT
    /\ emitted[i].payload["host"] = emitted[j].payload["host"]
    /\ emitted[i].payload["check_id"] = emitted[j].payload["check_id"]
    /\ emitted[j].at - emitted[i].at < IN_FLIGHT_TTL

\* C31: of a check request and its re-issue within in_flight_ttl, at most one
\* leads to a stored result.
C31_ReissueOneResult ==
    \A i, j \in 1..Len(emitted) :
        Reissued(i, j) => ~(ResultsOf(emitted[i].mid) # {} /\ ResultsOf(emitted[j].mid) # {})

\* C32: the record a worker stores for a request carries the check_id and the
\* user_submitted value of the request and the request's host, whether the
\* backend answered (success) or not (failure).
C32_ResultCarriesRequest ==
    \A i \in 1..Len(ck_stored) :
        /\ ck_stored[i]["check_id"] = Get(ck_msg, "check_id", "none")
        /\ ck_stored[i]["user_submitted"] = Get(ck_msg, "user_submitted", FALSE)
        /\ ck_stored[i]["host"] = ck_msg["host"]

\* The backend timed out on a user-submitted request with a check_id, and the
\* failure record was stored.
C32_Witness ==
    /\ ck_pc = "done"
    /\ Len(ck_stored) = 1
    /\ server_data = PyNone
    /\ ck_msg["check_id"] = "uuid-1"
    /\ ck_msg["user_submitted"]
    /\ ck_stored[1]["error_type"] = "connection_failed"

-----------------------------------------------------------------------------
(* Properties of the publisher loop *)

\* C33: when reading the registry fails during a cycle, the publisher does not
\* stop: it abandons the cycle, sleeps the refresh interval and starts a new
\* cycle from its beginning. (Stated for the cycles and the time the model
\* covers.)
C33_ReadFailureRetriesCycle ==
    \A c \in 1..(MaxCycles - 1) :
        (/\ pub_pc = "except"
         /\ pub_cycle = c
         /\ now + SERVER_REFRESH_INTERVAL_SECONDS <= MaxTime)
            ~> (/\ pub_pc = "scan_btc"
                /\ pub_cycle = c + 1
                /\ now >= pub_wake)

\* The first cycle was abandoned when reading the registry failed, and the
\* second cycle has gone through both prefixes.
C33_Witness ==
    /\ pub_cycle = 2
    /\ pub_pc = "sleep"
    /\ \E i \in 1..Len(pub_log) : pub_log[i].cycle = 1 /\ pub_log[i].decision = "read_failed"
    /\ \E i \in 1..Len(pub_log) : pub_log[i].cycle = 2 /\ pub_log[i].decision # "read_failed"
    /\ now >= SERVER_REFRESH_INTERVAL_SECONDS

\* The record the publisher read is marked user_submitted and was updated less
\* than a minute before.
RecentUserSubmitted(e) ==
    /\ Get(e.observed, "user_submitted", FALSE)
    /\ "LastUpdated" \in DOMAIN e.observed
    /\ e.at - e.observed["LastUpdated"] < USER_RECENT_SECONDS

\* C34: a target marked user_submitted whose last update is less than 60
\* seconds old is skipped by the publisher's cycle: no check request is
\* emitted for it in that cycle.
C34_RecentUserSubmittedSkipped ==
    \A i \in 1..Len(pub_log) :
        RecentUserSubmitted(pub_log[i]) =>
            /\ pub_log[i].decision = "skipped"
            /\ EmittedFor(pub_log[i].cycle, pub_log[i].key) = {}

\* C35: when query_server_data returns None (the backend timed out or failed
\* at the HTTP level), the worker skips the update: it writes no record for
\* the host, so the previous observation stays in the registry.
C35_BackendFailureSkipsUpdate ==
    (ck_entry = "pipeline" /\ server_data = PyNone) => ck_stored = << >>

-----------------------------------------------------------------------------
(* Properties of concurrent writers of the registry *)

\* C36: with several workers handling requests for the same host, LastUpdated
\* of the stored record never decreases across writes, in any interleaving of
\* the workers' answers and writes.
C36_LastUpdatedMonotonic ==
    [][\A k \in DOMAIN redis :
          redis'[k]["LastUpdated"] >= redis[k]["LastUpdated"]]_vars

\* C38: discovery only adds targets: no step replaces the record of a target
\* that exists in the registry by discovery's placeholder record (height 0,
\* minimal LastUpdated), in any interleaving with the workers' writes and
\* with deletions.
C38_DiscoveryOnlyAdds ==
    [][\A k \in (DOMAIN redis) \cap (DOMAIN redis') :
          redis'[k] # redis[k] => redis'[k] # DiscoveredRecord(k)]_vars

-----------------------------------------------------------------------------
(* Properties of the publish -> check -> store cycle *)

UserSubmitted(record) == Get(record, "user_submitted", FALSE)

-----------------------------------------------------------------------------
(* Properties of one publisher cycle over faulty entries *)

\* Cycle c has ended, and the registry answered every read of it.
CycleOver(c) ==
    \/ pub_cycle > c
    \/ pub_cycle = c /\ pub_pc \in {"sleep", "except", "sleeping"}
ReadFailed(c) ==
    \E i \in 1..Len(pub_log) : pub_log[i].cycle = c /\ pub_log[i].decision = "read_failed"
\* Handling the entry failed: empty value, invalid JSON, exception while
\* building or publishing its request.
EntryFailed(e) == e.decision \in {"empty", "json_error", "build_error", "publish_failed"}
\* The publisher read a well-formed record that is due.
ObservedDue(e) == e.observed \notin BadValues /\ ~Skipped(e.observed, e.at)

\* C40: within one publisher cycle, a failure while handling one registry
\* entry does not keep any other target of the cycle, in either prefix, from
\* being handled: each other target has been read in that cycle, and if it
\* was due its request has been emitted, once (unless its own publish failed).
C40_EntryFailureIsolated ==
    \A c \in 1..MaxCycles :
        (CycleOver(c) /\ ~ReadFailed(c)) =>
            \A i \in 1..Len(pub_log) :
                (pub_log[i].cycle = c /\ EntryFailed(pub_log[i])) =>
                    \A k \in RedisKeys \ {pub_log[i].key} :
                        \E j \in 1..Len(pub_log) :
                            /\ pub_log[j].cycle = c
                            /\ pub_log[j].key = k
                            /\ ObservedDue(pub_log[j]) =>
                                  /\ pub_log[j].decision \in {"published", "publish_failed"}
                                  /\ pub_log[j].decision = "published" =>
                                        Cardinality(EmittedFor(c, k)) = 1

\* In the first cycle the BTC entry could not be decoded and the ZEC target,
\* scanned after it, got its request emitted.
C40_Witness ==
    /\ CycleOver(1)
    /\ ~ReadFailed(1)
    /\ \E i, j \in 1..Len(pub_log) :
          /\ pub_log[i].cycle = 1
          /\ pub_log[i].key = BtcKey
          /\ pub_log[i].decision = "json_error"
          /\ pub_log[j].cycle = 1
          /\ pub_log[j].key = ZecKey
          /\ pub_log[j].decision = "published"
          /\ Cardinality(EmittedFor(1, ZecKey)) = 1

-----------------------------------------------------------------------------
(* No target is starved *)

\* The instants of the modelled time.
Times == {n * TimeStep : n \in 0..((MaxTime \div TimeStep) + 1)}
\* The registry or the bus failed in some cycle.
Failure ==
    \E i \in 1..Len(pub_log) : pub_log[i].decision \in {"read_failed", "publish_failed"}
EmittedKey(k) == \E j \in PublisherEmissions : emitted[j].key = k
EmittedKeyAfter(k, T) == \E j \in PublisherEmissions : emitted[j].key = k /\ emitted[j].at > T
\* The record of k is the result of a check completed at T.
CheckedAt(k, T) == "LastUpdated" \in DOMAIN redis[k] /\ redis[k]["LastUpdated"] = T
\* The last modelled cycle started no later than one interval after T.
TooLate(T) ==
    /\ pub_cycle = MaxCycles
    /\ pub_pc = "sleeping"
    /\ (pub_wake - SERVER_REFRESH_INTERVAL_SECONDS) - T <= SERVER_REFRESH_INTERVAL_SECONDS

\* C37: eventually every target in the registry has been emitted by the
\* publisher, also one whose LastUpdated is missing or unparsable and a
\* freshly discovered one, and a target whose check completed at T has been
\* emitted again in a cycle after T; unless the registry or the bus failed,
\* or (for the second part) the modelled cycles ended before the record was
\* due.
C37_NoTargetStarved ==
    <>(\A k \in RedisKeys :
          /\ EmittedKey(k) \/ Failure
          /\ \A T \in Times :
                CheckedAt(k, T) => (EmittedKeyAfter(k, T) \/ Failure \/ TooLate(T)))

\* The record of the check completed at time 0 was skipped while fresh and
\* emitted in a later cycle, with no failure of the registry or the bus.
C37_Witness ==
    /\ CheckedAt(BtcKey, 0)
    /\ ~Failure
    /\ EmittedKeyAfter(BtcKey, 0)
    /\ \E i \in 1..Len(pub_log) : pub_log[i].key = BtcKey /\ pub_log[i].decision = "skipped"


=============================================================================
